---- MODULE Spec2Model ----
(***************************************************************************)
(* NyumbaTZ: the property hooks (src/src/hooks/useProperties.ts), the      *)
(* backend client and its readiness flag (same file, from line 263), the   *)
(* query client configuration (src/src/main.tsx), the form validators      *)
(* (src/src/utils/validators.ts) and the auth context                      *)
(* (src/src/contexts/AuthContext.tsx).                                     *)
(*                                                                         *)
(* The query cache is the one of @tanstack/react-query, which the hooks    *)
(* drive through useQuery, invalidateQueries, setQueryData and             *)
(* removeQueries; the backend is the hosted database reached through the   *)
(* supabase client.  Both are modelled by what the calls of the hooks do   *)
(* to them.                                                                *)
(***************************************************************************)
EXTENDS Integers, Sequences, FiniteSets, TLC

\* ---------------------------------------------------------------- bounds
\* events from outside in one behaviour: hook calls (reads, mutations, view
\* increments, password resets) and changes of the configuration
MaxOps == 2
\* minutes the clock runs for
MaxNow == 5

\* ------------------------------------------------------ program constants
\* main.tsx:50  return failureCount < 3
RetryLimit == 3
\* main.tsx:47  error?.status >= 400 && error?.status < 500
ClientErrorLow == 400
ClientErrorHigh == 500

\* ids the backend hands out: 1 is a row from the start, 2 is created later
Ids == {1, 2}
\* the ids of the static dataset
MockIds == {1}
Owners == {"owner-1", "owner-2"}
\* the filter objects callers pass, as react-query hashes them into the key
FilterSets == {"{}", "{location:Dar}"}
\* status carried by a failed call's error object (0: the error has no status)
ErrStatuses == {0, 404}

\* configuration strings (import.meta.env.VITE_SUPABASE_URL / _ANON_KEY);
\* "" stands for a variable that is not set
UrlValues == {"", "https://your-project.supabase.co", "https://abc.supabase.co"}
KeyValues == {"", "your-anon-key", "eyJhbGciOi"}

VARIABLES
  env,              \* the configuration as it is now: [url, key]
  supabaseUrl,      \* useProperties.ts:290, read once when the module loads
  supabaseAnonKey,  \* useProperties.ts:291, read once when the module loads
  props,            \* backend table properties: id -> row
  ver,              \* number of successful backend writes so far
  q,                \* the query cache: key -> query
  mut,              \* the mutation issued last (at most one is in flight)
  authResult,       \* what the last resetPassword call returned
  ops,              \* events from outside so far
  searchFilters,    \* the SearchFilters value a list query is run with
  filtered,         \* what the list query's queryFn returned for it
  rawRecord,        \* a raw record handed to the normalizers
  normalized,       \* what a normalizer returned for it
  now,              \* Date.now(), in minutes since the module was loaded
  dataUpdatedAt,    \* query key -> time its data was written
  form,             \* the payload a property form hands to create / update
  user,             \* AuthContext.tsx:67
  profile,          \* AuthContext.tsx:68
  session,          \* AuthContext.tsx:69
  loading,          \* AuthContext.tsx:70
  profileLoading,   \* AuthContext.tsx:71
  backendSession,   \* the session the auth backend holds for this client
  tasks,            \* the async functions of the context that are awaiting
  subscriptions,    \* auth-state subscriptions that are active
  effectRuns,       \* times the auth effect has run
  effectLoading,    \* value of loading in the render the effect last ran for
  signInResult      \* what the last signIn call returned, until a signOut

cacheVars == <<env, supabaseUrl, supabaseAnonKey, props, ver, q, mut, authResult, ops>>
\* the inputs and results of the filter evaluator and of the normalizers
evalVars == <<searchFilters, filtered, rawRecord, normalized>>
\* the clock and the write times of the cache
timeVars == <<now, dataUpdatedAt>>
formVars == <<form>>
\* the auth context and the auth backend
authVars == <<user, profile, session, loading, profileLoading, backendSession, tasks,
              subscriptions, effectRuns, effectLoading, signInResult>>
otherVars == <<timeVars, formVars, authVars>>
auxVars == <<evalVars, otherVars>>
vars == <<env, supabaseUrl, supabaseAnonKey, props, ver, q, mut, authResult, ops,
          searchFilters, filtered, rawRecord, normalized,
          now, dataUpdatedAt, form,
          user, profile, session, loading, profileLoading, backendSession, tasks,
          subscriptions, effectRuns, effectLoading, signInResult>>

\* ----------------------------------------------------------------- text
\* String.prototype.toLowerCase, on the letters A to Z
UpperCase == "ABCDEFGHIJKLMNOPQRSTUVWXYZ"
LowerCase == "abcdefghijklmnopqrstuvwxyz"
LowerChar(c) ==
  IF \E i \in 1..Len(UpperCase) : SubSeq(UpperCase, i, i) = c
    THEN LET i == CHOOSE j \in 1..Len(UpperCase) : SubSeq(UpperCase, j, j) = c
         IN  SubSeq(LowerCase, i, i)
    ELSE c
RECURSIVE toLowerCase(_)
toLowerCase(s) ==
  IF Len(s) = 0 THEN ""
  ELSE IF Len(s) = 1 THEN LowerChar(s)
  ELSE LET half == Len(s) \div 2
       IN  toLowerCase(SubSeq(s, 1, half)) \o toLowerCase(SubSeq(s, half + 1, Len(s)))

\* String.prototype.includes: t occurs in s (the empty string occurs in all)
Includes(s, t) ==
  \E i \in 1..(Len(s) - Len(t) + 1) : SubSeq(s, i, i + Len(t) - 1) = t

\* column ILIKE '%t%' (t without the wildcards % and _)
ilike(column, t) == Includes(toLowerCase(column), toLowerCase(t))

\* ------------------------------------------------------------ readiness
Truthy(s) == s # ""

\* mutant: only the presence of the two values is tested
Configured_PresentOnly(url, key) == Truthy(url) /\ Truthy(key)

Configured(url, key) ==
  /\ Truthy(url)
  /\ Truthy(key)
  /\ ~Includes(url, "your-project")
  /\ ~Includes(key, "your-anon-key")

isSupabaseConfigured == Configured(supabaseUrl, supabaseAnonKey)

\* ------------------------------------------------------------ query keys
PROPERTY_KEYS_all == <<"properties">>
PROPERTY_KEYS_lists == PROPERTY_KEYS_all \o <<"list">>
PROPERTY_KEYS_list(filters) == PROPERTY_KEYS_lists \o <<filters>>
PROPERTY_KEYS_details == PROPERTY_KEYS_all \o <<"detail">>
PROPERTY_KEYS_detail(id) == PROPERTY_KEYS_details \o <<id>>
PROPERTY_KEYS_byOwner(ownerId) == PROPERTY_KEYS_all \o <<"owner", ownerId>>

ListKeys == {PROPERTY_KEYS_list(f) : f \in FilterSets}
DetailKeys == {PROPERTY_KEYS_detail(i) : i \in Ids}
OwnerKeys == {PROPERTY_KEYS_byOwner(o) : o \in Owners}
Keys == ListKeys \cup DetailKeys \cup OwnerKeys

\* react-query matches a query filter's queryKey as a prefix of the key
Matches(prefix, key) ==
  /\ Len(prefix) <= Len(key)
  /\ SubSeq(key, 1, Len(prefix)) = prefix

\* ------------------------------------------------------------- payloads
\* rev is the backend write that produced the data: of the row for a
\* property, of the whole table for a list.
Undefined == [kind |-> "undefined", src |-> "-", id |-> 0, ownerId |-> "-", rev |-> 0, views |-> 0]
Null == [kind |-> "null", src |-> "-", id |-> 0, ownerId |-> "-", rev |-> 0, views |-> 0]
ListOf(src, rev) == [kind |-> "list", src |-> src, id |-> 0, ownerId |-> "-", rev |-> rev, views |-> 0]

\* views is not among the fields the conversion copies: it is undefined (0)
convertDbPropertyToAppProperty(dbProperty) ==
  [kind |-> "property", src |-> "remote", id |-> dbProperty.id,
   ownerId |-> dbProperty.owner_id, rev |-> dbProperty.updated_at, views |-> 0]

\* the static dataset: all of owner-1, without a views field
mockProperties ==
  {[kind |-> "property", src |-> "mock", id |-> i, ownerId |-> "owner-1", rev |-> 0, views |-> 0] :
     i \in MockIds}

\* -------------------------------------------------------------- backend
\* what a backend call hands back in `data`: one row, the rows, or nothing
DbNone == [kind |-> "none", id |-> 0, owner_id |-> "-", updated_at |-> 0]
DbRows(rev) == [kind |-> "rows", id |-> 0, owner_id |-> "-", updated_at |-> rev]
DbRow(id, owner, rev) == [kind |-> "row", id |-> id, owner_id |-> owner, updated_at |-> rev]

UnusedRow == [st |-> "unused", owner_id |-> "-", updated_at |-> 0]
Live(id) == props[id].st = "live"
UnusedIds == {i \in Ids : props[i].st = "unused"}
\* gen_random_uuid(): an id no row ever had
NewId == CHOOSE i \in UnusedIds : \A j \in UnusedIds : i <= j

\* {data, error} of a call; status is the error's status (0: it has none),
\* code the error's code
NoResp == [ok |-> FALSE, data |-> DbNone, status |-> 0, code |-> ""]
Ok(data) == [ok |-> TRUE, data |-> data, status |-> 0, code |-> ""]
Failed(status) == [ok |-> FALSE, data |-> DbNone, status |-> status, code |-> "failed"]
Failures == {Failed(s) : s \in ErrStatuses}
\* .single() on a result that is not exactly one row
NoRows == [ok |-> FALSE, data |-> DbNone, status |-> 0, code |-> "PGRST116"]

\* db.properties.getAll / getByOwner: the rows as they are now
db_getAll == Ok(DbRows(ver))
db_getByOwner(ownerId) == Ok(DbRows(ver))
\* db.properties.getById ends in .single(): no row is an error, not null
db_getById(id) ==
  IF Live(id) THEN Ok(DbRow(id, props[id].owner_id, props[id].updated_at)) ELSE NoRows

\* ------------------------------------------------------------ query fns
\* what a queryFn / mutationFn does: return a value or throw the error
Returned(value) == [threw |-> FALSE, value |-> value, status |-> 0]
Thrown(status) == [threw |-> TRUE, value |-> Undefined, status |-> status]

\* mutant: the configuration is looked at again at every call
SelectRemote_PerCall == Configured(env.url, env.key)
\* the test every hook makes before it touches the backend
SelectRemote == isSupabaseConfigured

\* data?.map(convertDbPropertyToAppProperty) || []
MapConvert(data) ==
  IF data.kind = "rows" THEN ListOf("remote", data.updated_at) ELSE ListOf("remote", 0)

useProperties_fallback(filters) == Returned(ListOf("mock", 0))
useProperties_remote(resp) ==
  IF ~resp.ok THEN Thrown(resp.status) ELSE Returned(MapConvert(resp.data))

useProperty_fallback(id) ==
  IF \E p \in mockProperties : p.id = id
    THEN Returned(CHOOSE p \in mockProperties : p.id = id)
    ELSE Returned(Null)
\* mutant: the error is swallowed and the query succeeds with null
useProperty_remote_Swallow(resp) ==
  IF ~resp.ok THEN Returned(Null)
  ELSE IF resp.data.kind = "row" THEN Returned(convertDbPropertyToAppProperty(resp.data))
  ELSE Returned(Null)
useProperty_remote(resp) ==
  IF ~resp.ok THEN Thrown(resp.status)
  ELSE IF resp.data.kind = "row" THEN Returned(convertDbPropertyToAppProperty(resp.data))
  ELSE Returned(Null)

usePropertiesByOwner_fallback(ownerId) == Returned(ListOf("mock", 0))
usePropertiesByOwner_remote(resp) ==
  IF ~resp.ok THEN Thrown(resp.status) ELSE Returned(MapConvert(resp.data))

KeyKind(k) == k[2]
queryFn_fallback(k) ==
  CASE KeyKind(k) = "list" -> useProperties_fallback(k[3])
    [] KeyKind(k) = "detail" -> useProperty_fallback(k[3])
    [] KeyKind(k) = "owner" -> usePropertiesByOwner_fallback(k[3])
queryFn_remote(k, resp) ==
  CASE KeyKind(k) = "list" -> useProperties_remote(resp)
    [] KeyKind(k) = "detail" -> useProperty_remote(resp)
    [] KeyKind(k) = "owner" -> usePropertiesByOwner_remote(resp)
backendRead(k) ==
  CASE KeyKind(k) = "list" -> db_getAll
    [] KeyKind(k) = "detail" -> db_getById(k[3])
    [] KeyKind(k) = "owner" -> db_getByOwner(k[3])

\* mutant: the status of the error is not looked at
retry_IgnoresStatus(failureCount, status) == failureCount < RetryLimit
\* main.tsx:45-51, the retry option of the query client
retry(failureCount, status) ==
  IF status >= ClientErrorLow /\ status < ClientErrorHigh THEN FALSE
  ELSE failureCount < RetryLimit

\* ---------------------------------------------------------- query cache
\* a fetch: idle, sent (the backend has not answered), replied (the answer
\* is on its way); calls counts the backend calls of this fetch
NoFlight == [ph |-> "idle", resp |-> NoResp, calls |-> 0, waiters |-> 0]
Sent(calls, waiters) == [ph |-> "sent", resp |-> NoResp, calls |-> calls, waiters |-> waiters]
AbsentQuery == [st |-> "absent", data |-> Undefined, inv |-> FALSE, fl |-> NoFlight]

InFlight(k) == q[k].fl.ph # "idle"
\* data a read is served from the cache: there, and not invalidated
Servable(query) == query.st = "success" /\ ~query.inv

\* invalidateQueries: marks the matching queries and starts their fetch
\* over (cancelRefetch), so an answer already on its way is dropped
invalidateQueries(qq, prefix) ==
  [k \in Keys |->
     IF Matches(prefix, k) /\ qq[k].st # "absent"
       THEN [qq[k] EXCEPT !.inv = TRUE,
                          !.fl = IF @.ph = "idle" THEN @ ELSE Sent(1, @.waiters)]
       ELSE qq[k]]

\* removeQueries: the matching queries leave the cache
removeQueries(qq, prefix) ==
  [k \in Keys |-> IF Matches(prefix, k) THEN AbsentQuery ELSE qq[k]]

\* setQueryData: writes the data; a fetch in flight is left running
setQueryData(qq, key, data) ==
  IF data.kind = "undefined" THEN qq
  ELSE [qq EXCEPT ![key] = [@ EXCEPT !.st = "success", !.data = data, !.inv = FALSE]]

\* mutant: the owner's list is not invalidated
useCreateProperty_onSuccess_NoOwner(qq, newProperty) ==
  invalidateQueries(qq, PROPERTY_KEYS_lists)
useCreateProperty_onSuccess(qq, newProperty) ==
  invalidateQueries(invalidateQueries(qq, PROPERTY_KEYS_lists),
                    PROPERTY_KEYS_byOwner(newProperty.ownerId))

\* mutant: the answer is not written, the detail entry is only invalidated
useUpdateProperty_onSuccess_InvalidateOnly(qq, updatedProperty) ==
  invalidateQueries(
    invalidateQueries(
      invalidateQueries(qq, PROPERTY_KEYS_detail(updatedProperty.id)),
      PROPERTY_KEYS_lists),
    PROPERTY_KEYS_byOwner(updatedProperty.ownerId))
useUpdateProperty_onSuccess(qq, updatedProperty) ==
  invalidateQueries(
    invalidateQueries(
      setQueryData(qq, PROPERTY_KEYS_detail(updatedProperty.id), updatedProperty),
      PROPERTY_KEYS_lists),
    PROPERTY_KEYS_byOwner(updatedProperty.ownerId))

useDeleteProperty_onSuccess(qq, deletedId) ==
  invalidateQueries(
    invalidateQueries(removeQueries(qq, PROPERTY_KEYS_detail(deletedId)), PROPERTY_KEYS_lists),
    PROPERTY_KEYS_all)

\* (old) => old ? { ...old, views: (old.views || 0) + 1 } : old
IncrementUpdater(old) ==
  IF old.kind \in {"undefined", "null"} THEN old ELSE [old EXCEPT !.views = @ + 1]

\* setQueryData declines to write undefined, and writes null back as it is
useIncrementViews_onSuccess(qq, propertyId) ==
  IF qq[PROPERTY_KEYS_detail(propertyId)].st = "absent" THEN qq
  ELSE setQueryData(qq, PROPERTY_KEYS_detail(propertyId),
                    IncrementUpdater(qq[PROPERTY_KEYS_detail(propertyId)].data))

\* ------------------------------------------------------------ JS values
\* a value of a field that may be missing or of another type than expected
JsUndefined == [t |-> "undefined"]
JsNull == [t |-> "null"]
JsNumber(n) == [t |-> "number", v |-> n]
JsString(s) == [t |-> "string", v |-> s]
JsBoolean(b) == [t |-> "boolean", v |-> b]
JsArray(a) == [t |-> "array", v |-> a]

\* what `if (x)` and `x || y` test: an array is truthy even when it is empty
ToBoolean(x) ==
  CASE x.t = "undefined" -> FALSE
    [] x.t = "null" -> FALSE
    [] x.t = "number" -> x.v # 0
    [] x.t = "string" -> x.v # ""
    [] x.t = "boolean" -> x.v
    [] x.t = "array" -> TRUE
\* x || y
JsOr(x, y) == IF ToBoolean(x) THEN x ELSE y

\* ------------------------------------------------------- static dataset
\* mockData.ts, mockProperties: the fields the list query and the backend's
\* query read; createdDate is Date.now() minus createdDaysAgo days
mockData ==
  <<[id |-> 1, ownerId |-> "owner-1",
      title |-> "Modern 3BR House in Masaki",
      description |-> "Beautiful modern house in the prestigious Masaki area with sea views. Perfect for professionals and families. Fully furnished with modern amenities including air conditioning, generator backup, and 24/7 security.",
      priceMonthly |-> 1200000,
      location |-> [address |-> "Masaki Peninsula", city |-> "Dar es Salaam",
                    district |-> "Masaki", neighborhood |-> "Masaki"],
      bedrooms |-> 3, bathrooms |-> 2, propertyType |-> "house",
      amenities |-> <<"Parking", "Security", "Generator", "Water Tank", "Garden", "Air Conditioning", "Internet", "Furnished">>,
      images |-> <<"https://images.pexels.com/photos/106399/pexels-photo-106399.jpeg?auto=compress&cs=tinysrgb&w=800",
                "https://images.pexels.com/photos/1643383/pexels-photo-1643383.jpeg?auto=compress&cs=tinysrgb&w=800",
                "https://images.pexels.com/photos/1571460/pexels-photo-1571460.jpeg?auto=compress&cs=tinysrgb&w=800">>,
      status |-> "available", createdDaysAgo |-> 2, featured |-> TRUE],
    [id |-> 2, ownerId |-> "owner-1",
      title |-> "Cozy 2BR Apartment in Mikocheni",
      description |-> "Well-maintained 2-bedroom apartment in Mikocheni. Close to shopping centers and public transport. Features include parking space, water tank, and reliable internet connection.",
      priceMonthly |-> 550000,
      location |-> [address |-> "Mikocheni B", city |-> "Dar es Salaam",
                    district |-> "Mikocheni", neighborhood |-> "Mikocheni"],
      bedrooms |-> 2, bathrooms |-> 1, propertyType |-> "apartment",
      amenities |-> <<"Parking", "Security", "Water Tank", "Internet", "Balcony">>,
      images |-> <<"https://images.pexels.com/photos/1571453/pexels-photo-1571453.jpeg?auto=compress&cs=tinysrgb&w=800",
                "https://images.pexels.com/photos/1643383/pexels-photo-1643383.jpeg?auto=compress&cs=tinysrgb&w=800">>,
      status |-> "available", createdDaysAgo |-> 1, featured |-> FALSE],
    [id |-> 3, ownerId |-> "owner-1",
      title |-> "Luxury Villa in Oyster Bay",
      description |-> "Stunning luxury villa with ocean views in Oyster Bay. Features spacious rooms, private garden, swimming pool, and top-notch security. Perfect for executives and diplomats.",
      priceMonthly |-> 2500000,
      location |-> [address |-> "Oyster Bay Road", city |-> "Dar es Salaam",
                    district |-> "Oyster Bay", neighborhood |-> "Oyster Bay"],
      bedrooms |-> 4, bathrooms |-> 3, propertyType |-> "villa",
      amenities |-> <<"Parking", "Security", "Generator", "Water Tank", "Garden", "Swimming Pool", "Air Conditioning", "Internet", "Furnished">>,
      images |-> <<"https://images.pexels.com/photos/1396122/pexels-photo-1396122.jpeg?auto=compress&cs=tinysrgb&w=800",
                "https://images.pexels.com/photos/1732414/pexels-photo-1732414.jpeg?auto=compress&cs=tinysrgb&w=800",
                "https://images.pexels.com/photos/259588/pexels-photo-259588.jpeg?auto=compress&cs=tinysrgb&w=800">>,
      status |-> "available", createdDaysAgo |-> 3, featured |-> TRUE],
    [id |-> 4, ownerId |-> "owner-1",
      title |-> "Executive House in Mwanza City",
      description |-> "Executive 4-bedroom house near Lake Victoria. Perfect for business executives with family. Features include large compound, parking for 3 cars, generator, and beautiful lake views.",
      priceMonthly |-> 800000,
      location |-> [address |-> "Ilemela District", city |-> "Mwanza",
                    district |-> "Ilemela", neighborhood |-> "Ilemela"],
      bedrooms |-> 4, bathrooms |-> 3, propertyType |-> "house",
      amenities |-> <<"Parking", "Security", "Generator", "Water Tank", "Garden", "Internet">>,
      images |-> <<"https://images.pexels.com/photos/323780/pexels-photo-323780.jpeg?auto=compress&cs=tinysrgb&w=800",
                "https://images.pexels.com/photos/1396122/pexels-photo-1396122.jpeg?auto=compress&cs=tinysrgb&w=800">>,
      status |-> "available", createdDaysAgo |-> 4, featured |-> FALSE],
    [id |-> 5, ownerId |-> "owner-1",
      title |-> "Modern Studio in Mbeya",
      description |-> "Compact modern studio apartment perfect for students and young professionals in Mbeya. Features include kitchenette, private bathroom, and reliable internet.",
      priceMonthly |-> 280000,
      location |-> [address |-> "Mbeya Urban", city |-> "Mbeya",
                    district |-> "Mbeya Urban", neighborhood |-> "Mbeya Urban"],
      bedrooms |-> 1, bathrooms |-> 1, propertyType |-> "studio",
      amenities |-> <<"Security", "Internet">>,
      images |-> <<"https://images.pexels.com/photos/1571460/pexels-photo-1571460.jpeg?auto=compress&cs=tinysrgb&w=800">>,
      status |-> "available", createdDaysAgo |-> 5, featured |-> FALSE],
    [id |-> 6, ownerId |-> "owner-1",
      title |-> "Safari Lodge Style House in Arusha",
      description |-> "Unique safari lodge style house in Arusha, perfect for tourists and expatriates. Close to Mount Meru with stunning mountain views. Features include fireplace, large garden, and traditional Tanzanian architecture.",
      priceMonthly |-> 950000,
      location |-> [address |-> "Arusha Central", city |-> "Arusha",
                    district |-> "Arusha Central", neighborhood |-> "Arusha Central"],
      bedrooms |-> 3, bathrooms |-> 2, propertyType |-> "house",
      amenities |-> <<"Parking", "Security", "Water Tank", "Garden", "Internet">>,
      images |-> <<"https://images.pexels.com/photos/259588/pexels-photo-259588.jpeg?auto=compress&cs=tinysrgb&w=800",
                "https://images.pexels.com/photos/1396122/pexels-photo-1396122.jpeg?auto=compress&cs=tinysrgb&w=800">>,
      status |-> "available", createdDaysAgo |-> 6, featured |-> FALSE],
    [id |-> 7, ownerId |-> "owner-1",
      title |-> "Family Apartment in Mbeya Highlands",
      description |-> "Spacious 3-bedroom apartment in the cool highlands of Mbeya. Perfect for families with children. Features include balcony with mountain views, parking, and proximity to schools.",
      priceMonthly |-> 450000,
      location |-> [address |-> "Mbeya Highlands", city |-> "Mbeya",
                    district |-> "Mbeya Highlands", neighborhood |-> "Mbeya Highlands"],
      bedrooms |-> 3, bathrooms |-> 2, propertyType |-> "apartment",
      amenities |-> <<"Security", "Water Tank", "Internet">>,
      images |-> <<"https://images.pexels.com/photos/323780/pexels-photo-323780.jpeg?auto=compress&cs=tinysrgb&w=800",
                "https://images.pexels.com/photos/1643383/pexels-photo-1643383.jpeg?auto=compress&cs=tinysrgb&w=800">>,
      status |-> "available", createdDaysAgo |-> 7, featured |-> FALSE],
    [id |-> 8, ownerId |-> "owner-1",
      title |-> "Single Room in Temeke",
      description |-> "Affordable single room in Temeke area. Perfect for students and young professionals. Shared bathroom and kitchen facilities. Close to public transport and markets.",
      priceMonthly |-> 180000,
      location |-> [address |-> "Temeke District", city |-> "Dar es Salaam",
                    district |-> "Temeke", neighborhood |-> "Temeke"],
      bedrooms |-> 1, bathrooms |-> 1, propertyType |-> "room",
      amenities |-> <<"Security">>,
      images |-> <<"https://images.pexels.com/photos/1571460/pexels-photo-1571460.jpeg?auto=compress&cs=tinysrgb&w=800">>,
      status |-> "available", createdDaysAgo |-> 8, featured |-> FALSE],
    [id |-> 9, ownerId |-> "owner-1",
      title |-> "University Area House in Morogoro",
      description |-> "Perfect for university staff and families. 3-bedroom house near Sokoine University of Agriculture. Features include large compound, fruit trees, and quiet neighborhood.",
      priceMonthly |-> 600000,
      location |-> [address |-> "University Area", city |-> "Morogoro",
                    district |-> "University Area", neighborhood |-> "University Area"],
      bedrooms |-> 3, bathrooms |-> 2, propertyType |-> "house",
      amenities |-> <<"Parking", "Security", "Water Tank", "Garden", "Internet">>,
      images |-> <<"https://images.pexels.com/photos/106399/pexels-photo-106399.jpeg?auto=compress&cs=tinysrgb&w=800",
                "https://images.pexels.com/photos/323780/pexels-photo-323780.jpeg?auto=compress&cs=tinysrgb&w=800">>,
      status |-> "available", createdDaysAgo |-> 9, featured |-> FALSE]>>

IdsOf(list) == [i \in 1..Len(list) |-> list[i].id]

\* ------------------------------------------------------ filter evaluator
\* the values a caller puts into a criterion of SearchFilters
LocationValues ==
  {JsUndefined, JsString(""), JsString("Dar"), JsString("dAR ES"), JsString("Masaki")}
PriceMinValues == {JsUndefined, JsString(""), JsNumber(550000)}
PriceMaxValues == {JsUndefined, JsString(""), JsNumber(600000)}
PropertyTypeValues == {JsUndefined, JsString(""), JsString("house")}
BedroomsValues == {JsUndefined, JsString(""), JsNumber(2)}
BathroomsValues == {JsUndefined, JsString(""), JsNumber(2)}
SearchValues == {JsUndefined, JsString(""), JsString("SEA VIEWS")}

Criteria == {"location", "priceMin", "priceMax", "propertyType", "bedrooms", "bathrooms", "search"}
\* SearchFilters: every criterion is optional; search is the free-text query,
\* under the name db.properties.getAll reads it
SearchFilters ==
  [location : LocationValues, priceMin : PriceMinValues, priceMax : PriceMaxValues,
   propertyType : PropertyTypeValues, bedrooms : BedroomsValues,
   bathrooms : BathroomsValues, search : SearchValues]
\* useProperties(filters = {})
EmptyFilters == [c \in Criteria |-> JsUndefined]

\* the fallback branch again, with the field location is looked for in and
\* the strictness of the numeric comparisons left open, for the mutants below
PlaceOf(p, field) == IF field = "city" THEN p.location.city ELSE p.location.district
AtLeast(x, bound, strict) == IF strict THEN x > bound ELSE x >= bound
AtMost(x, bound, strict) == IF strict THEN x < bound ELSE x <= bound
NarrowAll(properties, f, field, strict) ==
  LET byLocation ==
        IF ToBoolean(f.location)
          THEN SelectSeq(properties, LAMBDA p :
                 Includes(toLowerCase(PlaceOf(p, field)), toLowerCase(f.location.v)))
          ELSE properties
      byPriceMin ==
        IF ToBoolean(f.priceMin)
          THEN SelectSeq(byLocation, LAMBDA p : AtLeast(p.priceMonthly, f.priceMin.v, strict))
          ELSE byLocation
      byPriceMax ==
        IF ToBoolean(f.priceMax)
          THEN SelectSeq(byPriceMin, LAMBDA p : AtMost(p.priceMonthly, f.priceMax.v, strict))
          ELSE byPriceMin
      byType ==
        IF ToBoolean(f.propertyType)
          THEN SelectSeq(byPriceMax, LAMBDA p : p.propertyType = f.propertyType.v)
          ELSE byPriceMax
      byBedrooms ==
        IF ToBoolean(f.bedrooms)
          THEN SelectSeq(byType, LAMBDA p : AtLeast(p.bedrooms, f.bedrooms.v, strict))
          ELSE byType
  IN  IF ToBoolean(f.bathrooms)
        THEN SelectSeq(byBedrooms, LAMBDA p : AtLeast(p.bathrooms, f.bathrooms.v, strict))
        ELSE byBedrooms

\* mutant: priceMax is applied to the whole dataset and the other criteria
\* are dropped
applyFilters_PriceMaxAlone(properties, f) ==
  IF ToBoolean(f.priceMax)
    THEN SelectSeq(properties, LAMBDA p : p.priceMonthly <= f.priceMax.v)
    ELSE NarrowAll(properties, f, "city", FALSE)
\* mutant: the list comes back in the reverse order
applyFilters_Reversed(properties, f) ==
  LET kept == NarrowAll(properties, f, "city", FALSE)
  IN  [i \in 1..Len(kept) |-> kept[Len(kept) + 1 - i]]
\* mutant: propertyType is compared whenever it is a string, the empty one too
applyFilters_TypeWhenDefined(properties, f) ==
  LET kept == NarrowAll(properties, f, "city", FALSE)
  IN  IF f.propertyType.t = "string"
        THEN SelectSeq(kept, LAMBDA p : p.propertyType = f.propertyType.v)
        ELSE kept
\* mutant: the bounds are exclusive
applyFilters_Exclusive(properties, f) == NarrowAll(properties, f, "city", TRUE)
\* mutant: location is looked for in the district
applyFilters_InDistrict(properties, f) == NarrowAll(properties, f, "district", FALSE)

\* useProperties.queryFn, fallback branch: the static dataset, narrowed by
\* one criterion after the other
applyFilters(properties, f) ==
  LET byLocation ==
        IF ToBoolean(f.location)
          THEN SelectSeq(properties,
                 LAMBDA p : Includes(toLowerCase(p.location.city), toLowerCase(f.location.v)))
          ELSE properties
      byPriceMin ==
        IF ToBoolean(f.priceMin)
          THEN SelectSeq(byLocation, LAMBDA p : p.priceMonthly >= f.priceMin.v)
          ELSE byLocation
      byPriceMax ==
        IF ToBoolean(f.priceMax)
          THEN SelectSeq(byPriceMin, LAMBDA p : p.priceMonthly <= f.priceMax.v)
          ELSE byPriceMin
      byType ==
        IF ToBoolean(f.propertyType)
          THEN SelectSeq(byPriceMax, LAMBDA p : p.propertyType = f.propertyType.v)
          ELSE byPriceMax
      byBedrooms ==
        IF ToBoolean(f.bedrooms)
          THEN SelectSeq(byType, LAMBDA p : p.bedrooms >= f.bedrooms.v)
          ELSE byType
      byBathrooms ==
        IF ToBoolean(f.bathrooms)
          THEN SelectSeq(byBedrooms, LAMBDA p : p.bathrooms >= f.bathrooms.v)
          ELSE byBedrooms
  IN  byBathrooms

\* ----------------------------------------------------- backend's records
\* a record as the backend returns it (select *): the columns of the table.
\* Columns that are NOT NULL are plain values; a column that can be null, or
\* a name the table does not have, is a JS value.
RowOf(p) ==
  [id |-> p.id, owner_id |-> p.ownerId, title |-> p.title, description |-> p.description,
   property_type |-> p.propertyType, bedrooms |-> p.bedrooms, bathrooms |-> p.bathrooms,
   monthly_rent |-> JsNumber(p.priceMonthly), price_monthly |-> JsUndefined,
   city |-> p.location.city, area |-> p.location.district,
   address |-> JsString(p.location.address),
   images |-> JsArray(p.images), amenities |-> JsArray(p.amenities),
   is_available |-> JsBoolean(p.status = "available"), is_featured |-> JsBoolean(p.featured),
   created_at |-> 0 - p.createdDaysAgo, updated_at |-> 0 - p.createdDaysAgo]

\* the table holding the records of the static dataset
TableRows == [i \in 1..Len(mockData) |-> RowOf(mockData[i])]

\* a field of the object a caller passed: undefined when it has none
Field(object, name) == IF name \in DOMAIN object THEN object[name] ELSE JsUndefined

\* .order('created_at', { ascending: false })
RECURSIVE OrderByCreatedAtDesc(_)
OrderByCreatedAtDesc(rows) ==
  IF Len(rows) = 0 THEN <<>>
  ELSE LET i == CHOOSE j \in 1..Len(rows) :
                  \A k \in 1..Len(rows) :
                    \/ rows[j].created_at > rows[k].created_at
                    \/ (rows[j].created_at = rows[k].created_at /\ j <= k)
           rest == [k \in 1..(Len(rows) - 1) |-> IF k < i THEN rows[k] ELSE rows[k + 1]]
       IN  <<rows[i]>> \o OrderByCreatedAtDesc(rest)

\* .range(from, to): the rows at the positions from..to, counted from 0
Range(rows, from, to) ==
  LET first == from + 1
      last == IF to + 1 < Len(rows) THEN to + 1 ELSE Len(rows)
  IN  IF first > last THEN <<>> ELSE SubSeq(rows, first, last)

\* db.properties.getAll(filters): the query the backend evaluates
db_properties_getAll(rows, f) ==
  LET available == SelectSeq(rows, LAMBDA r : r.is_available = JsBoolean(TRUE))
      byCity ==
        IF ToBoolean(Field(f, "city"))
          THEN SelectSeq(available, LAMBDA r : ilike(r.city, Field(f, "city").v))
          ELSE available
      byPriceMin ==
        IF ToBoolean(Field(f, "priceMin"))
          THEN SelectSeq(byCity, LAMBDA r : r.monthly_rent.v >= f.priceMin.v)
          ELSE byCity
      byPriceMax ==
        IF ToBoolean(Field(f, "priceMax"))
          THEN SelectSeq(byPriceMin, LAMBDA r : r.monthly_rent.v <= f.priceMax.v)
          ELSE byPriceMin
      byType ==
        IF ToBoolean(Field(f, "propertyType"))
          THEN SelectSeq(byPriceMax, LAMBDA r : r.property_type = f.propertyType.v)
          ELSE byPriceMax
      byBedrooms ==
        IF ToBoolean(Field(f, "bedrooms"))
          THEN SelectSeq(byType, LAMBDA r : r.bedrooms >= f.bedrooms.v)
          ELSE byType
      byBathrooms ==
        IF ToBoolean(Field(f, "bathrooms"))
          THEN SelectSeq(byBedrooms, LAMBDA r : r.bathrooms >= f.bathrooms.v)
          ELSE byBedrooms
      bySearch ==
        IF ToBoolean(Field(f, "search"))
          THEN SelectSeq(byBathrooms,
                 LAMBDA r : \/ ilike(r.title, f.search.v)
                            \/ ilike(r.description, f.search.v)
                            \/ ilike(r.city, f.search.v)
                            \/ ilike(r.area, f.search.v))
          ELSE byBathrooms
      ordered == OrderByCreatedAtDesc(bySearch)
      limited ==
        IF ToBoolean(Field(f, "limit")) /\ Field(f, "limit").v < Len(ordered)
          THEN SubSeq(ordered, 1, Field(f, "limit").v)
          ELSE ordered
      ranged ==
        IF ToBoolean(Field(f, "offset"))
          THEN Range(ordered, Field(f, "offset").v,
                     Field(f, "offset").v
                       + (IF ToBoolean(Field(f, "limit")) THEN Field(f, "limit").v ELSE 10) - 1)
          ELSE limited
  IN  ranged

\* ----------------------------------------------------------- normalizers
PlaceholderImage == "https://images.pexels.com/photos/106399/pexels-photo-106399.jpeg"

\* convertDbPropertyToAppProperty of the hooks, field by field
convertDbProperty_hooks(dbProperty) ==
  [id |-> dbProperty.id,
   ownerId |-> dbProperty.owner_id,
   title |-> dbProperty.title,
   description |-> dbProperty.description,
   priceMonthly |-> dbProperty.price_monthly,
   location |-> [address |-> JsOr(dbProperty.address, JsString("")),
                 city |-> dbProperty.city,
                 district |-> dbProperty.area,
                 neighborhood |-> dbProperty.area],
   bedrooms |-> dbProperty.bedrooms,
   bathrooms |-> dbProperty.bathrooms,
   propertyType |-> dbProperty.property_type,
   amenities |-> JsOr(dbProperty.amenities, JsArray(<<>>)),
   images |-> JsOr(dbProperty.images, JsArray(<<PlaceholderImage>>)),
   status |-> IF ToBoolean(dbProperty.is_available) THEN "available" ELSE "rented",
   createdDate |-> dbProperty.created_at,
   updatedDate |-> dbProperty.updated_at,
   featured |-> JsOr(dbProperty.is_featured, JsBoolean(FALSE))]

\* convertDbPropertyToAppProperty of the home page, field by field
convertDbProperty_HomePage(dbProperty) ==
  [id |-> dbProperty.id,
   ownerId |-> dbProperty.owner_id,
   title |-> dbProperty.title,
   description |-> dbProperty.description,
   priceMonthly |-> dbProperty.monthly_rent,
   location |-> [address |-> JsString(""),
                 city |-> dbProperty.city,
                 district |-> dbProperty.area,
                 neighborhood |-> dbProperty.area],
   bedrooms |-> dbProperty.bedrooms,
   bathrooms |-> dbProperty.bathrooms,
   propertyType |-> dbProperty.property_type,
   amenities |-> JsOr(dbProperty.amenities, JsArray(<<>>)),
   images |-> JsOr(dbProperty.images, JsArray(<<PlaceholderImage>>)),
   status |-> IF ToBoolean(dbProperty.is_available) THEN "available" ELSE "rented",
   createdDate |-> dbProperty.created_at,
   updatedDate |-> dbProperty.updated_at,
   featured |-> JsBoolean(FALSE)]

\* raw records handed to a normalizer: one row of the table, with the rent
\* under either name and the nullable columns in every state they can be in
RentNamings ==
  {[monthly_rent |-> JsNumber(800000), price_monthly |-> JsUndefined],
   [monthly_rent |-> JsUndefined, price_monthly |-> JsNumber(800000)]}
ImagesValues ==
  {JsUndefined, JsNull, JsArray(<<>>),
   JsArray(<<"https://images.pexels.com/photos/1571453/pexels-photo-1571453.jpeg">>)}
AmenitiesValues == {JsUndefined, JsNull, JsArray(<<>>), JsArray(<<"Parking">>)}
AvailableValues == {JsBoolean(TRUE), JsBoolean(FALSE), JsNull}
FeaturedValues == {JsBoolean(TRUE), JsBoolean(FALSE), JsUndefined}
AddressValues == {JsNull, JsString("Ilemela District")}
RawRecords ==
  {[RowOf(mockData[4]) EXCEPT !.monthly_rent = rent.monthly_rent,
                              !.price_monthly = rent.price_monthly,
                              !.images = images, !.amenities = amenities,
                              !.is_available = available, !.is_featured = featured,
                              !.address = address] :
     rent \in RentNamings, images \in ImagesValues, amenities \in AmenitiesValues,
     available \in AvailableValues, featured \in FeaturedValues, address \in AddressValues}

\* data?.map(convertDbPropertyToAppProperty)
MapConvertRows(rows) == [i \in 1..Len(rows) |-> convertDbProperty_hooks(rows[i])]

\* nothing evaluated yet
NotRun == [mode |-> "none", list |-> <<>>]
NotNormalized == [by |-> "none", property |-> JsUndefined]

\* ----------------------------------------------------------- validators
\* VALIDATION of utils/constants.ts: TITLE_MAX_LENGTH, DESCRIPTION_MAX_LENGTH
TITLE_MAX_LENGTH == 100
DESCRIPTION_MAX_LENGTH == 1000
Digits == "0123456789"
IsDigit(c) == \E i \in 1..Len(Digits) : SubSeq(Digits, i, i) = c
DigitValue(c) == (CHOOSE i \in 1..Len(Digits) : SubSeq(Digits, i, i) = c) - 1
IsSpace(c) == c = " "
JsNaN == [t |-> "NaN"]

\* value.trim().length === 0
TrimmedEmpty(s) == \A i \in 1..Len(s) : IsSpace(SubSeq(s, i, i))
\* phone.replace(/\s/g, '')
RECURSIVE RemoveSpaces(_)
RemoveSpaces(s) ==
  IF Len(s) = 0 THEN ""
  ELSE IF Len(s) = 1 THEN (IF IsSpace(s) THEN "" ELSE s)
  ELSE LET half == Len(s) \div 2
       IN  RemoveSpaces(SubSeq(s, 1, half)) \o RemoveSpaces(SubSeq(s, half + 1, Len(s)))
\* parseFloat of a string: its leading digits, NaN when there is none
RECURSIVE LeadingNumber(_, _)
LeadingNumber(s, acc) ==
  IF Len(s) > 0 /\ IsDigit(SubSeq(s, 1, 1))
    THEN LeadingNumber(SubSeq(s, 2, Len(s)), acc * 10 + DigitValue(SubSeq(s, 1, 1)))
    ELSE acc
parseFloat(s) ==
  IF Len(s) > 0 /\ IsDigit(SubSeq(s, 1, 1)) THEN JsNumber(LeadingNumber(s, 0)) ELSE JsNaN

\* `${n}` of a number that is not negative
RECURSIVE NumberToString(_)
NumberToString(n) ==
  IF n < 10 THEN SubSeq(Digits, n + 1, n + 1)
  ELSE NumberToString(n \div 10) \o SubSeq(Digits, (n % 10) + 1, (n % 10) + 1)

\* each validator returns the error message, or null
validateRequired(value, fieldName) ==
  IF ~ToBoolean(value) \/ TrimmedEmpty(value.v)
    THEN JsString(fieldName \o " is required")
    ELSE JsNull

validateLength(value, fieldName, minLength, maxLength) ==
  IF minLength # 0 /\ Len(value.v) < minLength
    THEN JsString(fieldName \o " must be at least " \o NumberToString(minLength) \o " characters")
  ELSE IF maxLength # 0 /\ Len(value.v) > maxLength
    THEN JsString(fieldName \o " must be no more than " \o NumberToString(maxLength) \o " characters")
  ELSE JsNull

validateNumber(value, fieldName, min, max) ==
  LET num == IF value.t = "string" THEN parseFloat(value.v)
             ELSE IF value.t = "number" THEN value
             ELSE JsNaN
  IN  IF num.t = "NaN" THEN JsString(fieldName \o " must be a valid number")
      ELSE IF num.v < min THEN JsString(fieldName \o " must be at least " \o NumberToString(min))
      ELSE IF num.v > max THEN JsString(fieldName \o " must be no more than " \o NumberToString(max))
      ELSE JsNull

\* PHONE_REGEX: /^(\+255|0)[67]\d{8}$/
PHONE_REGEX_test(s) ==
  \E prefix \in {"+255", "0"} :
    /\ Len(s) = Len(prefix) + 9
    /\ SubSeq(s, 1, Len(prefix)) = prefix
    /\ SubSeq(s, Len(prefix) + 1, Len(prefix) + 1) \in {"6", "7"}
    /\ \A i \in (Len(prefix) + 2)..Len(s) : IsDigit(SubSeq(s, i, i))

validatePhoneNumber(phone) ==
  IF ~ToBoolean(phone) THEN JsString("Phone number is required")
  ELSE IF ~PHONE_REGEX_test(RemoveSpaces(phone.v))
    THEN JsString("Please enter a valid Tanzanian phone number (e.g., 0712345678)")
  ELSE JsNull

FormFields == {"title", "description", "price", "bedrooms", "bathrooms", "city", "area", "phone"}

\* the error of one field of the form, or null
FieldError(data, field) ==
  CASE field = "title" ->
         JsOr(validateRequired(data.title, "Title"),
              IF ToBoolean(validateRequired(data.title, "Title")) THEN JsNull
              ELSE validateLength(data.title, "Title", 5, TITLE_MAX_LENGTH))
    [] field = "description" ->
         JsOr(validateRequired(data.description, "Description"),
              IF ToBoolean(validateRequired(data.description, "Description")) THEN JsNull
              ELSE validateLength(data.description, "Description", 20, DESCRIPTION_MAX_LENGTH))
    [] field = "price" -> validateNumber(data.price, "Price", 50000, 10000000)
    [] field = "bedrooms" -> validateNumber(data.bedrooms, "Bedrooms", 0, 10)
    [] field = "bathrooms" -> validateNumber(data.bathrooms, "Bathrooms", 0, 10)
    [] field = "city" -> validateRequired(data.city, "City")
    [] field = "area" -> validateRequired(data.area, "Area")
    [] field = "phone" -> validatePhoneNumber(data.phone)

\* validatePropertyForm: the errors record, field -> message
validatePropertyForm(data) ==
  [field \in {g \in FormFields : ToBoolean(FieldError(data, g))} |-> FieldError(data, field).v]

\* payloads a form hands to the create and update mutations
PropertyForms ==
  [kind : {"property"},
   title : {JsUndefined, JsString("Flat"), JsString("Modern 3BR House in Masaki")},
   description : {JsString("   "), JsString("Beautiful modern house in Masaki.")},
   price : {JsNumber(49999), JsNumber(50000), JsString("abc"), JsString("800000")},
   bedrooms : {JsNumber(0), JsNumber(11)},
   bathrooms : {JsNumber(2), JsUndefined},
   city : {JsString(""), JsString("Arusha")},
   area : {JsString("Njiro")},
   phone : {JsString(""), JsString("0712 345 678"), JsString("+255612345678"),
            JsString("0812345678")}]

\* ---------------------------------------------------------------- state
\* useState(null): no user, no profile, no session
NullUser == "null"
NullProfile == [id |-> "null", user_role |-> "-", full_name |-> "-"]
NoForm == [kind |-> "none"]
\* the clock at 0, no form filled in, the auth provider not mounted yet
OtherIdle ==
  /\ now = 0
  /\ dataUpdatedAt = [k \in Keys |-> 0]
  /\ form = NoForm
  /\ user = NullUser
  /\ profile = NullProfile
  /\ session = NullUser
  /\ loading = TRUE
  /\ profileLoading = FALSE
  /\ backendSession = NullUser
  /\ tasks = {}
  /\ subscriptions = 0
  /\ effectRuns = 0
  /\ effectLoading = TRUE
  /\ signInResult = "none"

NoMutation == [kind |-> "none", st |-> "idle", id |-> 0, ownerId |-> "-", resp |-> NoResp]
MutationInFlight == mut.st \in {"sent", "replied"}
Call == ops < MaxOps /\ ops' = ops + 1

Init ==
  /\ env \in [url : UrlValues, key : KeyValues]
  /\ supabaseUrl = env.url
  /\ supabaseAnonKey = env.key
  /\ props = [i \in Ids |-> IF i = 1 THEN [st |-> "live", owner_id |-> "owner-1", updated_at |-> 0]
                            ELSE UnusedRow]
  /\ ver = 0
  /\ q = [k \in Keys |-> AbsentQuery]
  /\ mut = NoMutation
  /\ authResult = "none"
  /\ ops = 0
  /\ searchFilters = EmptyFilters
  /\ filtered = NotRun
  /\ rawRecord = RowOf(mockData[1])
  /\ normalized = NotNormalized
  /\ OtherIdle

\* ---------------------------------------------------------------- reads
\* mutant: a caller that finds a fetch in flight makes a backend call of its own
useQuery_NoDedup(k) ==
  /\ Call
  /\ UNCHANGED <<env, supabaseUrl, supabaseAnonKey, props, ver, mut, authResult>>
  /\ UNCHANGED auxVars
  /\ IF InFlight(k)
       THEN q' = [q EXCEPT ![k].fl = Sent(@.calls + 1, @.waiters + 1)]
     ELSE IF Servable(q[k])
       THEN q' = q
     ELSE IF ~SelectRemote
       THEN q' = [q EXCEPT ![k] = [st |-> "success", data |-> queryFn_fallback(k).value,
                                   inv |-> FALSE, fl |-> NoFlight]]
     ELSE q' = [q EXCEPT ![k] = [@ EXCEPT !.st = IF @ = "absent" THEN "pending" ELSE @,
                                      !.fl = Sent(1, 1)]]

\* A component mounts useProperties / useProperty / usePropertiesByOwner on
\* key k.  Fallback: the queryFn returns the static data without a backend
\* call.  Remote: the caller joins the fetch in flight, or is served from the
\* cache, or starts the fetch.
useQuery(k) ==
  /\ Call
  /\ UNCHANGED <<env, supabaseUrl, supabaseAnonKey, props, ver, mut, authResult>>
  /\ UNCHANGED auxVars
  /\ IF InFlight(k)
       THEN q' = [q EXCEPT ![k].fl.waiters = @ + 1]
     ELSE IF Servable(q[k])
       THEN q' = q
     ELSE IF ~SelectRemote
       THEN q' = [q EXCEPT ![k] = [st |-> "success", data |-> queryFn_fallback(k).value,
                                   inv |-> FALSE, fl |-> NoFlight]]
     ELSE q' = [q EXCEPT ![k] = [@ EXCEPT !.st = IF @ = "absent" THEN "pending" ELSE @,
                                      !.fl = Sent(1, 1)]]

useProperties(filters) == useQuery(PROPERTY_KEYS_list(filters))
useProperty(id) == useQuery(PROPERTY_KEYS_detail(id))
usePropertiesByOwner(ownerId) == useQuery(PROPERTY_KEYS_byOwner(ownerId))

\* The backend answers the call of the fetch on k: with the rows as they are
\* now, or with a failure.
BackendAnswersQuery(k) ==
  /\ q[k].fl.ph = "sent"
  /\ \E resp \in {backendRead(k)} \cup Failures :
       q' = [q EXCEPT ![k].fl.ph = "replied", ![k].fl.resp = resp]
  /\ UNCHANGED <<env, supabaseUrl, supabaseAnonKey, props, ver, mut, authResult, ops>>
  /\ UNCHANGED auxVars

\* The answer reaches the queryFn.  A returned value is written to the cache;
\* a thrown error is retried as the query client's retry option says, and
\* otherwise becomes the query's error (the data it had stays).
QuerySettles(k) ==
  /\ q[k].fl.ph = "replied"
  /\ LET out == queryFn_remote(k, q[k].fl.resp)
         fl == q[k].fl
     IN  q' = IF ~out.threw
                THEN [q EXCEPT ![k] = [st |-> "success", data |-> out.value,
                                       inv |-> FALSE, fl |-> NoFlight]]
              ELSE IF retry(fl.calls - 1, out.status)
                THEN [q EXCEPT ![k].fl = Sent(fl.calls + 1, fl.waiters)]
              ELSE [q EXCEPT ![k].st = "error", ![k].fl = NoFlight]
  /\ UNCHANGED <<env, supabaseUrl, supabaseAnonKey, props, ver, mut, authResult, ops>>
  /\ UNCHANGED auxVars

\* ------------------------------------------------------------ mutations
\* mutant: not configured, the mutation is simulated and reported as a success
Mutate_Simulated(kind, id, ownerId) ==
  /\ ~MutationInFlight
  /\ Call
  /\ mut' = [kind |-> kind, st |-> IF SelectRemote THEN "sent" ELSE "success",
             id |-> id, ownerId |-> ownerId, resp |-> NoResp]
  /\ UNCHANGED <<env, supabaseUrl, supabaseAnonKey, props, ver, q, authResult>>
  /\ UNCHANGED auxVars

\* mutate() of useCreateProperty / useUpdateProperty / useDeleteProperty.
\* Not configured: the mutationFn throws 'Supabase not configured'.
Mutate(kind, id, ownerId) ==
  /\ ~MutationInFlight
  /\ Call
  /\ mut' = [kind |-> kind, st |-> IF SelectRemote THEN "sent" ELSE "error",
             id |-> id, ownerId |-> ownerId, resp |-> NoResp]
  /\ UNCHANGED <<env, supabaseUrl, supabaseAnonKey, props, ver, q, authResult>>
  /\ UNCHANGED auxVars

useCreateProperty(ownerId) == UnusedIds # {} /\ Mutate("create", 0, ownerId)
useUpdateProperty(id) == Mutate("update", id, "-")
useDeleteProperty(id) == Mutate("delete", id, "-")

\* db.properties.create / update / delete at the backend
db_create ==
  /\ props' = [props EXCEPT ![NewId] = [st |-> "live", owner_id |-> mut.ownerId,
                                        updated_at |-> ver + 1]]
  /\ ver' = ver + 1
  /\ mut' = [mut EXCEPT !.st = "replied", !.resp = Ok(DbRow(NewId, mut.ownerId, ver + 1))]

db_update ==
  IF Live(mut.id)
    THEN /\ props' = [props EXCEPT ![mut.id].updated_at = ver + 1]
         /\ ver' = ver + 1
         /\ mut' = [mut EXCEPT !.st = "replied",
                               !.resp = Ok(DbRow(mut.id, props[mut.id].owner_id, ver + 1))]
    ELSE /\ mut' = [mut EXCEPT !.st = "replied", !.resp = NoRows]
         /\ UNCHANGED <<props, ver>>

db_delete ==
  /\ mut' = [mut EXCEPT !.st = "replied", !.resp = Ok(DbNone)]
  /\ IF Live(mut.id)
       THEN /\ props' = [props EXCEPT ![mut.id].st = "deleted"]
            /\ ver' = ver + 1
       ELSE UNCHANGED <<props, ver>>

BackendAnswersMutation ==
  /\ mut.st = "sent"
  /\ \/ mut.kind = "create" /\ db_create
     \/ mut.kind = "update" /\ db_update
     \/ mut.kind = "delete" /\ db_delete
     \/ /\ \E f \in Failures : mut' = [mut EXCEPT !.st = "replied", !.resp = f]
        /\ UNCHANGED <<props, ver>>
  /\ UNCHANGED <<env, supabaseUrl, supabaseAnonKey, q, authResult, ops>>
  /\ UNCHANGED auxVars

\* the cache after the mutation's onSuccess
onSuccess(m) ==
  CASE m.kind = "create" ->
         useCreateProperty_onSuccess(q, convertDbPropertyToAppProperty(m.resp.data))
    [] m.kind = "update" ->
         useUpdateProperty_onSuccess(q, convertDbPropertyToAppProperty(m.resp.data))
    [] m.kind = "delete" -> useDeleteProperty_onSuccess(q, m.id)

\* mutant: the lists are invalidated when the mutation fails, too
MutationSettles_OnSettled ==
  /\ mut.st = "replied"
  /\ IF mut.resp.ok
       THEN /\ mut' = [mut EXCEPT !.st = "success"]
            /\ q' = onSuccess(mut)
       ELSE /\ mut' = [mut EXCEPT !.st = "error"]
            /\ q' = invalidateQueries(q, PROPERTY_KEYS_lists)
  /\ UNCHANGED <<env, supabaseUrl, supabaseAnonKey, props, ver, authResult, ops>>
  /\ UNCHANGED auxVars

\* The answer reaches the mutationFn: `if (error) throw error`, else the
\* mutation succeeds and its onSuccess runs.
MutationSettles ==
  /\ mut.st = "replied"
  /\ IF mut.resp.ok
       THEN /\ mut' = [mut EXCEPT !.st = "success"]
            /\ q' = onSuccess(mut)
       ELSE /\ mut' = [mut EXCEPT !.st = "error"]
            /\ q' = q
  /\ UNCHANGED <<env, supabaseUrl, supabaseAnonKey, props, ver, authResult, ops>>
  /\ UNCHANGED auxVars

\* mutate(propertyId) of useIncrementViews.  Not configured: the mutationFn
\* returns and onSuccess adds one to the cached record.  Configured: db.properties
\* has no incrementViews, the call throws, and onSuccess does not run.
useIncrementViews(propertyId) ==
  /\ ~MutationInFlight
  /\ Call
  /\ IF SelectRemote
       THEN /\ mut' = [kind |-> "incrementViews", st |-> "error", id |-> propertyId,
                       ownerId |-> "-", resp |-> NoResp]
            /\ q' = q
       ELSE /\ mut' = [kind |-> "incrementViews", st |-> "success", id |-> propertyId,
                       ownerId |-> "-", resp |-> NoResp]
            /\ q' = useIncrementViews_onSuccess(q, propertyId)
  /\ UNCHANGED <<env, supabaseUrl, supabaseAnonKey, props, ver, authResult>>
  /\ UNCHANGED auxVars

\* ------------------------------------------------------------------ auth
\* AuthContext.resetPassword: not configured, it returns an error; configured,
\* it returns what auth.resetPassword returned.
resetPassword ==
  /\ Call
  /\ IF ~isSupabaseConfigured
       THEN authResult' = "error"
       ELSE authResult' \in {"ok", "error"}
  /\ UNCHANGED <<env, supabaseUrl, supabaseAnonKey, props, ver, q, mut>>
  /\ UNCHANGED auxVars

\* ------------------------------------------------------------- staleness
\* milliseconds in one unit of the clock
Minute == 60 * 1000

\* mutant: every hook is left with the query client's default
staleTime_Default(k) == (5 * 60 * 1000) \div Minute
\* the staleTime option of the hook that owns the key, in minutes
staleTime(k) ==
  CASE KeyKind(k) = "list" -> (5 * 60 * 1000) \div Minute
    [] KeyKind(k) = "detail" -> (5 * 60 * 1000) \div Minute
    [] KeyKind(k) = "owner" -> (2 * 60 * 1000) \div Minute

\* react-query's isStaleByTime: the time until stale, dataUpdatedAt +
\* staleTime - now, has run down to 0
isStaleByTime(k) == now - dataUpdatedAt[k] >= staleTime(k)
\* data a mounting observer is served without a fetch
Fresh(k) == Servable(q[k]) /\ ~isStaleByTime(k)

\* a minute passes
Tick ==
  /\ now < MaxNow
  /\ now' = now + 1
  /\ UNCHANGED <<cacheVars, evalVars, dataUpdatedAt, formVars, authVars>>

\* A component mounts a query hook on key k at time now.  It joins the fetch
\* in flight; or it is served the cached data, which is fresh; or the queryFn
\* runs: in fallback mode it returns the static data at once, in remote mode
\* the backend is called (data the cache has stays while the fetch runs).
useQueryAt(k) ==
  /\ Call
  /\ IF InFlight(k)
       THEN /\ q' = [q EXCEPT ![k].fl.waiters = @ + 1]
            /\ UNCHANGED dataUpdatedAt
     ELSE IF Fresh(k)
       THEN UNCHANGED <<q, dataUpdatedAt>>
     ELSE IF ~SelectRemote
       THEN /\ q' = [q EXCEPT ![k] = [st |-> "success", data |-> queryFn_fallback(k).value,
                                      inv |-> FALSE, fl |-> NoFlight]]
            /\ dataUpdatedAt' = [dataUpdatedAt EXCEPT ![k] = now]
     ELSE /\ q' = [q EXCEPT ![k] = [@ EXCEPT !.st = IF @ = "absent" THEN "pending" ELSE @,
                                         !.fl = Sent(1, 1)]]
          /\ UNCHANGED dataUpdatedAt
  /\ UNCHANGED <<env, supabaseUrl, supabaseAnonKey, props, ver, mut, authResult>>
  /\ UNCHANGED <<evalVars, now, formVars, authVars>>

\* The answer reaches the queryFn at time now: a returned value is written
\* to the cache with its time, a thrown error is retried or becomes the
\* query's error.
QuerySettlesAt(k) ==
  /\ q[k].fl.ph = "replied"
  /\ LET out == queryFn_remote(k, q[k].fl.resp)
         fl == q[k].fl
     IN  IF ~out.threw
           THEN /\ q' = [q EXCEPT ![k] = [st |-> "success", data |-> out.value,
                                          inv |-> FALSE, fl |-> NoFlight]]
                /\ dataUpdatedAt' = [dataUpdatedAt EXCEPT ![k] = now]
         ELSE IF retry(fl.calls - 1, out.status)
           THEN /\ q' = [q EXCEPT ![k].fl = Sent(fl.calls + 1, fl.waiters)]
                /\ UNCHANGED dataUpdatedAt
         ELSE /\ q' = [q EXCEPT ![k].st = "error", ![k].fl = NoFlight]
              /\ UNCHANGED dataUpdatedAt
  /\ UNCHANGED <<env, supabaseUrl, supabaseAnonKey, props, ver, mut, authResult, ops>>
  /\ UNCHANGED <<evalVars, now, formVars, authVars>>

\* the write times after setQueryData has written key at time now
Written(qq, key) ==
  IF qq[key] # q[key] THEN [dataUpdatedAt EXCEPT ![key] = now] ELSE dataUpdatedAt

\* The answer to a mutation reaches its mutationFn at time now; onSuccess of
\* an update writes the answer under the detail key.
MutationSettlesAt ==
  /\ mut.st = "replied"
  /\ IF mut.resp.ok
       THEN /\ mut' = [mut EXCEPT !.st = "success"]
            /\ q' = onSuccess(mut)
            /\ dataUpdatedAt' =
                 IF mut.kind = "update"
                   THEN [dataUpdatedAt EXCEPT ![PROPERTY_KEYS_detail(mut.resp.data.id)] = now]
                   ELSE dataUpdatedAt
       ELSE /\ mut' = [mut EXCEPT !.st = "error"]
            /\ UNCHANGED <<q, dataUpdatedAt>>
  /\ UNCHANGED <<env, supabaseUrl, supabaseAnonKey, props, ver, authResult, ops>>
  /\ UNCHANGED <<evalVars, now, formVars, authVars>>

\* mutate(propertyId) of useIncrementViews at time now
useIncrementViewsAt(propertyId) ==
  /\ ~MutationInFlight
  /\ Call
  /\ IF SelectRemote
       THEN /\ mut' = [kind |-> "incrementViews", st |-> "error", id |-> propertyId,
                       ownerId |-> "-", resp |-> NoResp]
            /\ UNCHANGED <<q, dataUpdatedAt>>
       ELSE /\ mut' = [kind |-> "incrementViews", st |-> "success", id |-> propertyId,
                       ownerId |-> "-", resp |-> NoResp]
            /\ q' = useIncrementViews_onSuccess(q, propertyId)
            /\ dataUpdatedAt' =
                 Written(useIncrementViews_onSuccess(q, propertyId),
                         PROPERTY_KEYS_detail(propertyId))
  /\ UNCHANGED <<env, supabaseUrl, supabaseAnonKey, props, ver, authResult>>
  /\ UNCHANGED <<evalVars, now, formVars, authVars>>

\* ---------------------------------------------------------- auth context
\* accounts of the auth backend, and the role in each one's profiles row
Users == {"u1", "u2"}
StoredRole == [u \in Users |-> IF u = "u1" THEN "landlord" ELSE "tenant"]
\* the user signUp makes up without a backend: id Date.now().toString()
MockUser == "mock"

\* the row db.profiles.getById returns, and the profile loadProfile makes up
\* when the call fails
StoredProfile(userId) == [id |-> userId, user_role |-> StoredRole[userId], full_name |-> "stored"]
basicProfile(userId) == [id |-> userId, user_role |-> "tenant", full_name |-> "User"]

isLandlord == profile # NullProfile /\ profile.user_role = "landlord"
isTenant == profile # NullProfile /\ profile.user_role = "tenant"

\* the test signUp makes instead of reading isSupabaseConfigured
signUp_Configured(url, key) ==
  ~(\/ ~Truthy(url)
    \/ Includes(url, "placeholder")
    \/ ~Truthy(key)
    \/ Includes(key, "placeholder"))

\* an async function of the context suspended at an await: `of` is the
\* function that called, `at` the call awaited, closure the value of loading
\* it was created with, run the effect run it belongs to (0: none)
Task(of, at, userId, closure, run) ==
  [of |-> of, at |-> at, userId |-> userId, closure |-> closure, run |-> run]

\* the state the setters write, gathered so that one step can apply several
Context ==
  [user |-> user, profile |-> profile, session |-> session, loading |-> loading,
   profileLoading |-> profileLoading, tasks |-> tasks]
Install(c) ==
  /\ user' = c.user
  /\ profile' = c.profile
  /\ session' = c.session
  /\ loading' = c.loading
  /\ profileLoading' = c.profileLoading
  /\ tasks' = c.tasks

\* the callback given to onAuthStateChange, up to its first await; it is
\* called only while a subscription is active, and `loading` in it is the
\* value of the render the effect ran for
onAuthStateChange_callback(c, newSession) ==
  IF subscriptions = 0 THEN c
  ELSE IF newSession # NullUser
    THEN [c EXCEPT !.session = newSession, !.user = newSession, !.profileLoading = TRUE,
                   !.tasks = @ \cup {Task("listener", "getById", newSession,
                                          effectLoading, effectRuns)}]
    ELSE [c EXCEPT !.session = NullUser, !.user = NullUser, !.profile = NullProfile,
                   !.loading = IF effectLoading THEN FALSE ELSE @]

\* mutant: the effect subscribes again without its cleanup having run
Subscribe_NoCleanup == subscriptions + 1
\* the subscriptions after the effect's cleanup and its new subscribe
Subscribe == (IF subscriptions > 0 THEN subscriptions - 1 ELSE 0) + 1

\* The effect of AuthProvider runs: after the first render, and again after
\* a render in which loading differs from the last run's (deps [loading]).
\* getInitialSession starts; not configured, it sets loading to false and
\* the effect returns without subscribing.
AuthEffectRuns ==
  /\ effectRuns = 0 \/ loading # effectLoading
  /\ effectRuns' = effectRuns + 1
  /\ effectLoading' = loading
  /\ IF ~isSupabaseConfigured
       THEN /\ loading' = FALSE
            /\ subscriptions' = IF subscriptions > 0 THEN subscriptions - 1 ELSE 0
            /\ UNCHANGED tasks
       ELSE /\ tasks' = tasks \cup {Task("init", "getSession", NullUser, loading, effectRuns + 1)}
            /\ subscriptions' = Subscribe
            /\ UNCHANGED loading
  /\ UNCHANGED <<user, profile, session, profileLoading, backendSession, signInResult>>
  /\ UNCHANGED <<cacheVars, evalVars, timeVars, formVars>>

\* supabase.auth.getSession() returns to getInitialSession: with the session
\* the backend holds (then the profile is loaded), with none, or it throws;
\* the finally block sets loading to false
getSession_Returns(t) ==
  /\ t \in tasks /\ t.at = "getSession"
  /\ \/ /\ backendSession # NullUser
        /\ Install([Context EXCEPT
              !.session = backendSession, !.user = backendSession, !.profileLoading = TRUE,
              !.tasks = (@ \ {t}) \cup {Task("init", "getById", backendSession, t.closure, t.run)}])
     \/ /\ backendSession = NullUser
        /\ Install([Context EXCEPT !.loading = FALSE, !.tasks = @ \ {t}])
     \/ Install([Context EXCEPT !.loading = FALSE, !.tasks = @ \ {t}])
  /\ UNCHANGED <<backendSession, subscriptions, effectRuns, effectLoading, signInResult>>
  /\ UNCHANGED <<cacheVars, evalVars, timeVars, formVars>>

\* what the caller of loadProfile does when it returns
AfterLoadProfile(c, t) ==
  IF t.of = "init" THEN [c EXCEPT !.loading = FALSE]
  ELSE IF t.of = "listener" THEN [c EXCEPT !.loading = IF t.closure THEN FALSE ELSE @]
  ELSE c

\* db.profiles.getById(userId) returns to loadProfile: the row is installed,
\* or, when the call failed, a profile made up with the role 'tenant'; then
\* the caller goes on
loadProfile_Returns(t) ==
  /\ t \in tasks /\ t.at = "getById"
  /\ \E loaded \in {StoredProfile(t.userId), basicProfile(t.userId)} :
       Install(AfterLoadProfile(
         [Context EXCEPT !.profile = loaded, !.profileLoading = FALSE, !.tasks = @ \ {t}], t))
  /\ UNCHANGED <<backendSession, subscriptions, effectRuns, effectLoading, signInResult>>
  /\ UNCHANGED <<cacheVars, evalVars, timeVars, formVars>>

\* signIn(email, password) of the account userId.  Not configured: it returns
\* {error: null} and does nothing else.  Configured: auth.signIn fails, or
\* succeeds, and then the backend holds the session and the subscribed
\* callback is called with it.
signIn(userId) ==
  /\ effectRuns > 0
  /\ Call
  /\ IF ~isSupabaseConfigured
       THEN /\ signInResult' = "ok"
            /\ UNCHANGED <<user, profile, session, loading, profileLoading, tasks, backendSession>>
       ELSE \/ /\ signInResult' = "error"
               /\ UNCHANGED <<user, profile, session, loading, profileLoading, tasks,
                              backendSession>>
            \/ /\ signInResult' = "ok"
               /\ backendSession' = userId
               /\ Install(onAuthStateChange_callback(Context, userId))
  /\ UNCHANGED <<subscriptions, effectRuns, effectLoading>>
  /\ UNCHANGED <<env, supabaseUrl, supabaseAnonKey, props, ver, q, mut, authResult>>
  /\ UNCHANGED <<evalVars, timeVars, formVars>>

\* signOut(): auth.signOut() ends the session at the backend (the subscribed
\* callback is called with no session) or returns an error; either way the
\* context's user, profile and session are set to null
signOut ==
  /\ effectRuns > 0
  /\ Call
  /\ \/ /\ backendSession' = NullUser
        /\ Install([onAuthStateChange_callback(Context, NullUser) EXCEPT
              !.user = NullUser, !.profile = NullProfile, !.session = NullUser])
     \/ /\ UNCHANGED backendSession
        /\ Install([Context EXCEPT
              !.user = NullUser, !.profile = NullProfile, !.session = NullUser])
  /\ signInResult' = "none"
  /\ UNCHANGED <<subscriptions, effectRuns, effectLoading>>
  /\ UNCHANGED <<env, supabaseUrl, supabaseAnonKey, props, ver, q, mut, authResult>>
  /\ UNCHANGED <<evalVars, timeVars, formVars>>

\* loadProfile up to its first await, as signUp calls it
loadProfile_Starts(c, of, userId) ==
  IF ~isSupabaseConfigured
    THEN [c EXCEPT !.profile = NullProfile, !.profileLoading = FALSE]
    ELSE [c EXCEPT !.profileLoading = TRUE,
                   !.tasks = @ \cup {Task(of, "getById", userId, loading, 0)}]

\* signUp(email, password, userData) for the account userId.  By its own
\* test not configured: a made-up user and profile are installed.  Otherwise
\* auth.signUp fails or asks for an email confirmation (nothing changes), or
\* signs the user in: the backend holds the session, the subscribed callback
\* is called, and signUp sets user and session and loads the profile.
signUp(userId) ==
  /\ effectRuns > 0
  /\ Call
  /\ IF ~signUp_Configured(supabaseUrl, supabaseAnonKey)
       THEN /\ Install([Context EXCEPT
                 !.user = MockUser,
                 !.profile = [id |-> MockUser, user_role |-> StoredRole[userId],
                              full_name |-> "given"]])
            /\ UNCHANGED backendSession
       ELSE \/ UNCHANGED <<user, profile, session, loading, profileLoading, tasks,
                           backendSession>>
            \/ /\ backendSession' = userId
               /\ Install(loadProfile_Starts(
                    [onAuthStateChange_callback(Context, userId) EXCEPT
                       !.user = userId, !.session = userId],
                    "signUp", userId))
  /\ UNCHANGED <<subscriptions, effectRuns, effectLoading, signInResult>>
  /\ UNCHANGED <<env, supabaseUrl, supabaseAnonKey, props, ver, q, mut, authResult>>
  /\ UNCHANGED <<evalVars, timeVars, formVars>>

\* ----------------------------------------------------------- environment
\* the configuration changes while the process runs
ConfigurationChanges ==
  /\ Call
  /\ env' \in [url : UrlValues, key : KeyValues] \ {env}
  /\ UNCHANGED <<supabaseUrl, supabaseAnonKey, props, ver, q, mut, authResult>>
  /\ UNCHANGED auxVars

Next ==
  \/ \E f \in FilterSets : useProperties(f)
  \/ \E i \in Ids : useProperty(i)
  \/ \E o \in Owners : usePropertiesByOwner(o)
  \/ \E k \in Keys : BackendAnswersQuery(k)
  \/ \E k \in Keys : QuerySettles(k)
  \/ \E o \in Owners : useCreateProperty(o)
  \/ \E i \in Ids : useUpdateProperty(i)
  \/ \E i \in Ids : useDeleteProperty(i)
  \/ BackendAnswersMutation
  \/ MutationSettles
  \/ \E i \in Ids : useIncrementViews(i)

Spec == Init /\ [][Next]_vars

\* the same process with the configuration changing under it, and resetPassword
NextSelector == Next \/ resetPassword \/ ConfigurationChanges
SpecSelector == Init /\ [][NextSelector]_vars

\* ------------------------------------------------ the list query, in full
\* a process loaded without or with a configuration, and a list query with
\* some SearchFilters value about to run
InitEvaluator ==
  /\ env \in {[url |-> "", key |-> ""],
              [url |-> "https://abc.supabase.co", key |-> "eyJhbGciOi"]}
  /\ supabaseUrl = env.url
  /\ supabaseAnonKey = env.key
  /\ props = [i \in Ids |-> IF i = 1 THEN [st |-> "live", owner_id |-> "owner-1", updated_at |-> 0]
                            ELSE UnusedRow]
  /\ ver = 0
  /\ q = [k \in Keys |-> AbsentQuery]
  /\ mut = NoMutation
  /\ authResult = "none"
  /\ ops = 0
  /\ searchFilters \in SearchFilters
  /\ filtered = NotRun
  /\ rawRecord = RowOf(mockData[1])
  /\ normalized = NotNormalized
  /\ OtherIdle

\* useProperties.queryFn without a configuration: the static dataset, filtered
useProperties_queryFn_fallback ==
  /\ filtered.mode = "none"
  /\ ~SelectRemote
  /\ filtered' = [mode |-> "fallback", list |-> applyFilters(mockData, searchFilters)]
  /\ UNCHANGED <<cacheVars, searchFilters, rawRecord, normalized, otherVars>>

\* useProperties.queryFn with a configuration: db.properties.getAll(filters)
\* at the backend, and the rows it returns normalized
useProperties_queryFn_remote ==
  /\ filtered.mode = "none"
  /\ SelectRemote
  /\ filtered' = [mode |-> "remote",
                  list |-> MapConvertRows(db_properties_getAll(TableRows, searchFilters))]
  /\ UNCHANGED <<cacheVars, searchFilters, rawRecord, normalized, otherVars>>

NextEvaluator == useProperties_queryFn_fallback \/ useProperties_queryFn_remote
SpecEvaluator == InitEvaluator /\ [][NextEvaluator]_vars

\* the list query again, with the numeric criteria absent, zero or positive
ZeroFilters ==
  {[c \in Criteria |->
      IF c = "location" THEN loc
      ELSE IF c = "priceMin" THEN lo
      ELSE IF c = "priceMax" THEN hi
      ELSE IF c = "bedrooms" THEN beds
      ELSE IF c = "bathrooms" THEN baths
      ELSE JsUndefined] :
     loc \in {JsUndefined, JsString("Dar")},
     lo \in {JsUndefined, JsNumber(0), JsNumber(550000)},
     hi \in {JsUndefined, JsNumber(0), JsNumber(600000)},
     beds \in {JsUndefined, JsNumber(0), JsNumber(2)},
     baths \in {JsUndefined, JsNumber(0), JsNumber(2)}}

InitZero ==
  /\ env \in {[url |-> "", key |-> ""],
              [url |-> "https://abc.supabase.co", key |-> "eyJhbGciOi"]}
  /\ supabaseUrl = env.url
  /\ supabaseAnonKey = env.key
  /\ props = [i \in Ids |-> IF i = 1 THEN [st |-> "live", owner_id |-> "owner-1", updated_at |-> 0]
                            ELSE UnusedRow]
  /\ ver = 0
  /\ q = [k \in Keys |-> AbsentQuery]
  /\ mut = NoMutation
  /\ authResult = "none"
  /\ ops = 0
  /\ searchFilters \in ZeroFilters
  /\ filtered = NotRun
  /\ rawRecord = RowOf(mockData[1])
  /\ normalized = NotNormalized
  /\ OtherIdle

SpecZero == InitZero /\ [][NextEvaluator]_vars

\* ---------------------------------------------------------- normalization
InitNormalize ==
  /\ env = [url |-> "https://abc.supabase.co", key |-> "eyJhbGciOi"]
  /\ supabaseUrl = env.url
  /\ supabaseAnonKey = env.key
  /\ props = [i \in Ids |-> IF i = 1 THEN [st |-> "live", owner_id |-> "owner-1", updated_at |-> 0]
                            ELSE UnusedRow]
  /\ ver = 0
  /\ q = [k \in Keys |-> AbsentQuery]
  /\ mut = NoMutation
  /\ authResult = "none"
  /\ ops = 0
  /\ searchFilters = EmptyFilters
  /\ filtered = NotRun
  /\ rawRecord \in RawRecords
  /\ normalized = NotNormalized
  /\ OtherIdle

\* the hooks normalize the record
NormalizeInHooks ==
  /\ normalized.by = "none"
  /\ normalized' = [by |-> "hooks", property |-> convertDbProperty_hooks(rawRecord)]
  /\ UNCHANGED <<cacheVars, searchFilters, filtered, rawRecord, otherVars>>

\* the home page normalizes the record
NormalizeInHomePage ==
  /\ normalized.by = "none"
  /\ normalized' = [by |-> "HomePage", property |-> convertDbProperty_HomePage(rawRecord)]
  /\ UNCHANGED <<cacheVars, searchFilters, filtered, rawRecord, otherVars>>

NextNormalize == NormalizeInHooks \/ NormalizeInHomePage
SpecNormalize == InitNormalize /\ [][NextNormalize]_vars

\* ------------------------------------------------------------- readiness
\* configuration strings a process can be loaded with: none, the template
\* values, real ones, and the values the client is created with when none is
\* given
ReadinessUrlValues == UrlValues \cup {"https://placeholder.supabase.co"}
ReadinessKeyValues == KeyValues \cup {"placeholder-key"}

\* a process loaded with any of these, reading through the three query hooks
InitReadiness ==
  /\ env \in [url : ReadinessUrlValues, key : ReadinessKeyValues]
  /\ supabaseUrl = env.url
  /\ supabaseAnonKey = env.key
  /\ props = [i \in Ids |-> IF i = 1 THEN [st |-> "live", owner_id |-> "owner-1", updated_at |-> 0]
                            ELSE UnusedRow]
  /\ ver = 0
  /\ q = [k \in Keys |-> AbsentQuery]
  /\ mut = NoMutation
  /\ authResult = "none"
  /\ ops = 0
  /\ searchFilters = EmptyFilters
  /\ filtered = NotRun
  /\ rawRecord = RowOf(mockData[1])
  /\ normalized = NotNormalized
  /\ OtherIdle

NextReadiness ==
  \/ \E f \in FilterSets : useProperties(f)
  \/ \E i \in Ids : useProperty(i)
  \/ \E o \in Owners : usePropertiesByOwner(o)
  \/ \E k \in Keys : BackendAnswersQuery(k)
  \/ \E k \in Keys : QuerySettles(k)

SpecReadiness == InitReadiness /\ [][NextReadiness]_vars

\* ------------------------------------------------------ property payloads
\* a form's payload handed to useCreateProperty / useUpdateProperty as
\* propertyData / updates
InitPayload ==
  /\ env \in {[url |-> "", key |-> ""],
              [url |-> "https://abc.supabase.co", key |-> "eyJhbGciOi"]}
  /\ supabaseUrl = env.url
  /\ supabaseAnonKey = env.key
  /\ props = [i \in Ids |-> IF i = 1 THEN [st |-> "live", owner_id |-> "owner-1", updated_at |-> 0]
                            ELSE UnusedRow]
  /\ ver = 0
  /\ q = [k \in Keys |-> AbsentQuery]
  /\ mut = NoMutation
  /\ authResult = "none"
  /\ ops = 0
  /\ searchFilters = EmptyFilters
  /\ filtered = NotRun
  /\ rawRecord = RowOf(mockData[1])
  /\ normalized = NotNormalized
  /\ now = 0
  /\ dataUpdatedAt = [k \in Keys |-> 0]
  /\ form \in PropertyForms
  /\ user = NullUser
  /\ profile = NullProfile
  /\ session = NullUser
  /\ loading = TRUE
  /\ profileLoading = FALSE
  /\ backendSession = NullUser
  /\ tasks = {}
  /\ subscriptions = 0
  /\ effectRuns = 0
  /\ effectLoading = TRUE
  /\ signInResult = "none"

\* mutate(form): the mutationFn passes its argument on as it is
NextPayload ==
  \/ \E o \in Owners : useCreateProperty(o)
  \/ \E i \in Ids : useUpdateProperty(i)
  \/ BackendAnswersMutation
  \/ MutationSettles

SpecPayload == InitPayload /\ [][NextPayload]_vars

\* --------------------------------------------------------- auth provider
\* a process loaded with some configuration; the backend may hold a session
\* of an earlier visit; the provider is about to mount
InitAuth ==
  /\ env \in [url : ReadinessUrlValues, key : ReadinessKeyValues]
  /\ supabaseUrl = env.url
  /\ supabaseAnonKey = env.key
  /\ props = [i \in Ids |-> IF i = 1 THEN [st |-> "live", owner_id |-> "owner-1", updated_at |-> 0]
                            ELSE UnusedRow]
  /\ ver = 0
  /\ q = [k \in Keys |-> AbsentQuery]
  /\ mut = NoMutation
  /\ authResult = "none"
  /\ ops = 0
  /\ searchFilters = EmptyFilters
  /\ filtered = NotRun
  /\ rawRecord = RowOf(mockData[1])
  /\ normalized = NotNormalized
  /\ now = 0
  /\ dataUpdatedAt = [k \in Keys |-> 0]
  /\ form = NoForm
  /\ user = NullUser
  /\ profile = NullProfile
  /\ session = NullUser
  /\ loading = TRUE
  /\ profileLoading = FALSE
  /\ backendSession \in Users \cup {NullUser}
  /\ tasks = {}
  /\ subscriptions = 0
  /\ effectRuns = 0
  /\ effectLoading = TRUE
  /\ signInResult = "none"

\* the steps the provider takes by itself
AuthInternal ==
  \/ AuthEffectRuns
  \/ \E t \in tasks : getSession_Returns(t)
  \/ \E t \in tasks : loadProfile_Returns(t)

NextAuth ==
  \/ AuthInternal
  \/ \E u \in Users : signIn(u)
  \/ signOut
  \/ \E u \in Users : signUp(u)

SpecAuth == InitAuth /\ [][NextAuth]_vars
\* the effect runs when it is due, and every awaited call returns
SpecAuthFair == SpecAuth /\ WF_vars(AuthInternal)

\* ------------------------------------------------ the cache as time passes
\* the keys the components of a process read
LoadedKeys ==
  {PROPERTY_KEYS_list("{}"), PROPERTY_KEYS_detail(1), PROPERTY_KEYS_byOwner("owner-1")}
\* what the read of key k left in the cache
Loaded(k) ==
  [st |-> "success",
   data |-> IF ~SelectRemote THEN queryFn_fallback(k).value
            ELSE queryFn_remote(k, backendRead(k)).value,
   inv |-> FALSE, fl |-> NoFlight]

\* a process not configured or configured, whose components have read
\* nothing yet or these keys when it was loaded, and whose clock starts
InitStale ==
  /\ env \in {[url |-> "", key |-> ""], [url |-> "https://abc.supabase.co", key |-> "eyJhbGciOi"]}
  /\ supabaseUrl = env.url
  /\ supabaseAnonKey = env.key
  /\ props = [i \in Ids |-> IF i = 1 THEN [st |-> "live", owner_id |-> "owner-1", updated_at |-> 0]
                            ELSE UnusedRow]
  /\ ver = 0
  /\ \E read \in {{}, LoadedKeys} :
       q = [k \in Keys |-> IF k \in read THEN Loaded(k) ELSE AbsentQuery]
  /\ mut = NoMutation
  /\ authResult = "none"
  /\ ops = 0
  /\ searchFilters = EmptyFilters
  /\ filtered = NotRun
  /\ rawRecord = RowOf(mockData[1])
  /\ normalized = NotNormalized
  /\ OtherIdle

NextStale ==
  \/ Tick
  \/ \E k \in LoadedKeys : useQueryAt(k)
  \/ \E k \in Keys : BackendAnswersQuery(k)
  \/ \E k \in Keys : QuerySettlesAt(k)
  \/ \E i \in Ids : useUpdateProperty(i)
  \/ BackendAnswersMutation
  \/ MutationSettlesAt
  \/ \E i \in Ids : useIncrementViewsAt(i)

SpecStale == InitStale /\ [][NextStale]_vars


\* ================================================================ claims
Structural == {"create", "update", "delete"}
HasData(query) == query.data.kind # "undefined"
IsClientError(status) == status >= ClientErrorLow /\ status < ClientErrorHigh
\* the step in which a structural mutation's onSuccess runs
SucceedsNow == mut.st = "replied" /\ mut'.st = "success"
\* the property the succeeding create / update answered with
Answered == convertDbPropertyToAppProperty(mut.resp.data)
\* invalidated, or not in the cache
Clean(query) == query.st = "absent" \/ query.inv

\* C1 (as amended): when a create, update or delete succeeds, every list key
\* and the owner's key are invalidated; update replaces the detail entry by
\* the answer and delete removes it; create leaves the detail key alone, which
\* then holds no servable data older than the create.
C1_ScopesAfterMutation ==
  [][SucceedsNow =>
       /\ \A k \in ListKeys : Clean(q'[k])
       /\ mut.kind = "create" =>
            /\ Clean(q'[PROPERTY_KEYS_byOwner(Answered.ownerId)])
            /\ LET d == q'[PROPERTY_KEYS_detail(Answered.id)]
               IN  Servable(d) => d.data.rev >= Answered.rev
       /\ mut.kind = "update" =>
            /\ Clean(q'[PROPERTY_KEYS_byOwner(Answered.ownerId)])
            /\ LET d == q'[PROPERTY_KEYS_detail(Answered.id)]
               IN  Servable(d) /\ d.data = Answered
       /\ mut.kind = "delete" =>
            /\ \A k \in OwnerKeys : Clean(q'[k])
            /\ q'[PROPERTY_KEYS_detail(mut.id)].st = "absent"]_vars

\* a mutation has succeeded and left invalidated data in a list or owner key
C1_Witness ==
  /\ mut.st = "success"
  /\ mut.kind \in Structural
  /\ \E k \in ListKeys \cup OwnerKeys : HasData(q[k]) /\ q[k].inv

\* C1 as stated: every successful create, update or delete invalidates,
\* replaces or removes the detail key of the property, as well as every list
\* key and the owner's key.
C1_AllThreeScopes ==
  [][SucceedsNow =>
       LET id == IF mut.kind = "delete" THEN mut.id ELSE Answered.id
           owner == IF mut.kind = "delete" THEN props[mut.id].owner_id ELSE Answered.ownerId
           d == q'[PROPERTY_KEYS_detail(id)]
       IN  /\ \A k \in ListKeys : Clean(q'[k])
           /\ owner \in Owners => Clean(q'[PROPERTY_KEYS_byOwner(owner)])
           /\ Clean(d) \/ (mut.kind # "delete" /\ d.data = Answered)]_vars

\* C2 as stated: a view increment on a property whose detail record is cached
\* shows views + 1 in the cache as soon as it is issued, and keeps it when the
\* backend call fails.
C2_OptimisticIncrement ==
  [][\A i \in Ids :
       (useIncrementViews(i) /\ q[PROPERTY_KEYS_detail(i)].data.kind = "property")
         => q'[PROPERTY_KEYS_detail(i)].data.views = q[PROPERTY_KEYS_detail(i)].data.views + 1]_vars

\* C3 as stated: once the answer of a successful update is there, data served
\* from the detail key, from a list key or from the owner's key is not older
\* than the update.
C3_ReadsAfterUpdate ==
  (mut.kind = "update" /\ mut.st = "success") =>
    \A k \in {PROPERTY_KEYS_detail(Answered.id), PROPERTY_KEYS_byOwner(Answered.ownerId)} \cup ListKeys :
      Servable(q[k]) => q[k].data.rev >= Answered.rev

\* C4: issuing a create, update or delete, the backend working on it, and its
\* failure all leave every cache entry as it was: only the step in which the
\* mutation succeeds writes to the cache.
C4_NoOptimisticWrite ==
  [][(mut' # mut /\ mut'.kind \in Structural /\ mut'.st # "success") => q' = q]_vars

\* the backend has failed an update while the cache holds servable data
C4_Witness ==
  /\ isSupabaseConfigured
  /\ mut.kind = "update"
  /\ mut.st = "error"
  /\ mut.resp.code = "failed"
  /\ \E k \in Keys : Servable(q[k])

C6_RoutedByLoadTimeFlag ==
  [][/\ supabaseUrl' = supabaseUrl /\ supabaseAnonKey' = supabaseAnonKey
     /\ \A k \in Keys :
          (useQuery(k) /\ ~InFlight(k) /\ ~Servable(q[k]))
            => (q'[k].fl.ph = "sent" <=> Configured(supabaseUrl, supabaseAnonKey))
     /\ (mut' # mut /\ ops' # ops /\ mut'.kind \in Structural)
          => (mut'.st = "sent" <=> Configured(supabaseUrl, supabaseAnonKey))]_vars

\* the configuration has become valid after a load without one, and a read has
\* been served by the static dataset
C6_Witness ==
  /\ Configured(env.url, env.key)
  /\ ~isSupabaseConfigured
  /\ \E k \in Keys : q[k].st = "success" /\ q[k].data.src = "mock"

\* C6 as stated: an operation issued while the configuration is valid is sent
\* to the backend.
C6_RoutedByCurrentConfiguration ==
  [][Configured(env.url, env.key) =>
       /\ \A k \in Keys :
            (useQuery(k) /\ ~InFlight(k) /\ ~Servable(q[k])) => q'[k].fl.ph = "sent"
       /\ (mut' # mut /\ ops' # ops /\ mut'.kind \in Structural) => mut'.st = "sent"]_vars

\* C7 (as amended): while the readiness flag is false nothing reaches the
\* backend; the list, detail and by-owner queries and the view increment are
\* served by the fallback path without an error, while create, update and
\* delete are rejected and resetPassword returns an error.
C7_FallbackOutcomes ==
  ~isSupabaseConfigured =>
    /\ \A k \in Keys :
         /\ q[k].st \in {"absent", "success"}
         /\ ~InFlight(k)
         /\ HasData(q[k]) => q[k].data.src \in {"mock", "-"}
    /\ mut.kind \in Structural => mut.st = "error"
    /\ mut.kind = "incrementViews" => mut.st = "success"
    /\ authResult \in {"none", "error"}
    /\ ver = 0

\* without a configuration, a delete and a password reset have both ended in
\* an error
C7_Witness ==
  /\ ~isSupabaseConfigured
  /\ mut.kind = "delete"
  /\ mut.st = "error"
  /\ authResult = "error"

\* C7 as stated: while the readiness flag is false no operation ends in an
\* error.
C7_NoErrorWithoutConfiguration ==
  ~isSupabaseConfigured =>
    /\ mut.st # "error"
    /\ authResult # "error"
    /\ \A k \in Keys : q[k].st # "error"

\* C8: when the last call of a remote fetch has failed, the query ends in the
\* error state with the data it had before: no static record, empty list or
\* null is put in its place.
C8_RemoteErrorSurfaced ==
  [][\A k \in Keys :
       (q[k].fl.ph = "replied" /\ ~q[k].fl.resp.ok /\ q'[k].fl.ph = "idle" /\ mut' = mut)
         => (q'[k].st = "error" /\ q'[k].data = q[k].data /\ q'[k].data.src # "mock")]_vars

\* a list query, a detail query and a by-owner query can each end in the error
\* state; here one has, with the backend configured
C8_Witness ==
  /\ isSupabaseConfigured
  /\ \E k \in Keys : q[k].st = "error" /\ ~InFlight(k)

\* C9 (as amended): a failed call of a query is made again unless the error's
\* status is 4xx, up to three times: a fetch makes one call when it succeeds
\* at once or fails with a 4xx status, and at most four otherwise.
C9_RetryPolicy ==
  [][\A k \in Keys :
       LET f == q[k].fl
       IN  (f.ph = "replied" /\ q'[k].fl.ph # "replied" /\ mut' = mut)
             => IF f.resp.ok \/ IsClientError(f.resp.status) \/ f.calls > RetryLimit
                  THEN q'[k].fl.ph = "idle"
                  ELSE q'[k].fl = Sent(f.calls + 1, f.waiters)]_vars

\* a fetch is on its fourth backend call
C9_Witness == \E k \in Keys : q[k].fl.calls = RetryLimit + 1

\* C9 as stated: a fetch makes exactly one backend call.
C9_NeverRetried == \A k \in Keys : q[k].fl.calls <= 1

\* C10 as stated: a detail query for an id no row has ends with null as its
\* data and not in an error, with and without a configured backend.
C10_NotFoundIsNull ==
  [][\A i \in Ids :
       LET k == PROPERTY_KEYS_detail(i)
       IN  /\ (q[k].fl.ph = "replied" /\ q[k].fl.resp.code = "PGRST116"
                /\ q'[k] # q[k] /\ mut' = mut /\ ops' = ops)
                => (q'[k].st = "success" /\ q'[k].data = Null)
           /\ (useQuery(k) /\ ~isSupabaseConfigured /\ i \notin MockIds)
                => (q'[k].st = "success" /\ q'[k].data = Null)]_vars

\* ------------------------------------------------- filter evaluator claims
\* the ids in a list
Selected(list) == {list[i].id : i \in DOMAIN list}
\* the value with criterion c taken out
Without(f, c) == [f EXCEPT ![c] = JsUndefined]
\* the value restricted to the criteria in D
Restrict(f, D) == [c \in Criteria |-> IF c \in D THEN f[c] ELSE JsUndefined]
\* what the branch that has run returns for another SearchFilters value
Evaluated(f) ==
  IF filtered.mode = "fallback" THEN applyFilters(mockData, f)
  ELSE MapConvertRows(db_properties_getAll(TableRows, f))
\* the record of the static dataset with this id
MockOf(id) == mockData[CHOOSE i \in DOMAIN mockData : mockData[i].id = id]
Position(id) == CHOOSE i \in DOMAIN mockData : mockData[i].id = id

\* C11 as stated: the list query selects the same properties for the same
\* SearchFilters value from the same records, whether it has run against
\* the static dataset or against the backend.
C11_SameSelectionInBothModes ==
  filtered.mode # "none" =>
    /\ Selected(applyFilters(mockData, searchFilters))
         = Selected(db_properties_getAll(TableRows, searchFilters))
    /\ Selected(filtered.list) = Selected(applyFilters(mockData, searchFilters))

\* C12 as stated: with a free-text query set, every property the list query
\* returns has the query in its title, description, city or area, whatever
\* the case of the letters; and with no other criterion set it returns all
\* of those.
C12_FreeTextSelects ==
  (filtered.mode # "none" /\ ToBoolean(searchFilters.search)) =>
    LET text == searchFilters.search.v
        matching == {mockData[i].id : i \in {j \in DOMAIN mockData :
                        \/ ilike(mockData[j].title, text)
                        \/ ilike(mockData[j].description, text)
                        \/ ilike(mockData[j].location.city, text)
                        \/ ilike(mockData[j].location.district, text)}}
    IN  /\ Selected(filtered.list) \subseteq matching
        /\ searchFilters = Restrict(searchFilters, {"search"})
             => Selected(filtered.list) = matching

\* the criteria that are set in f
SetCriteria(f) == {c \in Criteria : ToBoolean(f[c])}

\* C13: in the fallback branch, splitting the criteria that are set in the
\* SearchFilters value into two parts in any way, the list returned for the
\* whole value holds exactly the properties returned for both parts, in the
\* order of the dataset.
C13_CombinedIsIntersection ==
  filtered.mode = "fallback" =>
    \A D \in SUBSET SetCriteria(searchFilters) :
      LET one == Selected(applyFilters(mockData, Restrict(searchFilters, D)))
          other == Selected(applyFilters(mockData, Restrict(searchFilters, Criteria \ D)))
      IN  filtered.list = SelectSeq(mockData, LAMBDA p : p.id \in one /\ p.id \in other)

\* location and priceMax both narrow the result, and something is left
C13_Witness ==
  /\ filtered.mode = "fallback"
  /\ Len(filtered.list) > 0
  /\ Len(filtered.list) < Len(applyFilters(mockData, Restrict(searchFilters, {"location"})))
  /\ Len(filtered.list) < Len(applyFilters(mockData, Restrict(searchFilters, {"priceMax"})))
  /\ searchFilters = Restrict(searchFilters, {"location", "priceMax"})

\* C14: the list of the fallback branch is a subsequence of the dataset:
\* every property in it is one of the dataset, none is there twice, and they
\* stand in the order they have in the dataset.
C14_Subsequence ==
  filtered.mode = "fallback" =>
    /\ \A i \in DOMAIN filtered.list : \E j \in DOMAIN mockData : filtered.list[i] = mockData[j]
    /\ \A i, j \in DOMAIN filtered.list :
         i < j => Position(filtered.list[i].id) < Position(filtered.list[j].id)

\* some properties are filtered out, and the two or more that are left are not
\* neighbours in the dataset
C14_Witness ==
  /\ filtered.mode = "fallback"
  /\ Len(filtered.list) >= 2
  /\ Len(filtered.list) < Len(mockData)
  /\ \E i \in 1..(Len(filtered.list) - 1) :
       Position(filtered.list[i + 1].id) > Position(filtered.list[i].id) + 1

\* C15: a criterion whose value is the empty string changes nothing: the list
\* is the one returned for the value without that criterion, in either branch.
C15_EmptyStringIsUnset ==
  filtered.mode # "none" =>
    \A c \in Criteria :
      searchFilters[c] = JsString("") => filtered.list = Evaluated(Without(searchFilters, c))

\* propertyType is the empty string while another criterion narrows the result
C15_Witness ==
  /\ filtered.mode = "fallback"
  /\ searchFilters.propertyType = JsString("")
  /\ searchFilters.priceMin = JsString("")
  /\ Len(filtered.list) > 0
  /\ Len(filtered.list) < Len(mockData)

\* C16: a property whose price equals priceMin or priceMax, or whose number
\* of bedrooms or bathrooms equals the one asked for, is not filtered out by
\* that criterion: if the other criteria retain it, it is in the list.
C16_BoundsInclusive ==
  filtered.mode # "none" =>
    /\ \A c \in {"priceMin", "priceMax"} :
         ToBoolean(searchFilters[c]) =>
           \A id \in Selected(Evaluated(Without(searchFilters, c))) :
             MockOf(id).priceMonthly = searchFilters[c].v => id \in Selected(filtered.list)
    /\ ToBoolean(searchFilters.bedrooms) =>
         \A id \in Selected(Evaluated(Without(searchFilters, "bedrooms"))) :
           MockOf(id).bedrooms = searchFilters.bedrooms.v => id \in Selected(filtered.list)
    /\ ToBoolean(searchFilters.bathrooms) =>
         \A id \in Selected(Evaluated(Without(searchFilters, "bathrooms"))) :
           MockOf(id).bathrooms = searchFilters.bathrooms.v => id \in Selected(filtered.list)

\* property 2 (550000, two bedrooms) is retained with priceMin 550000 and
\* bedrooms 2, and property 9 (600000) with priceMax 600000
C16_Witness ==
  /\ filtered.mode = "fallback"
  /\ searchFilters.priceMin = JsNumber(550000)
  /\ searchFilters.priceMax = JsNumber(600000)
  /\ searchFilters.bedrooms = JsNumber(2)
  /\ {2, 9} \subseteq Selected(filtered.list)

\* C17: in the fallback branch the location criterion retains exactly the
\* properties whose city contains the string, whatever the case of the
\* letters, and {location: "Dar", priceMax: 600000} gives properties 2 and 8
\* in that order.
C17_LocationMatchesCity ==
  filtered.mode = "fallback" =>
    /\ searchFilters = Restrict(searchFilters, {"location"}) =>
         /\ searchFilters.location \in {JsString("Dar"), JsString("dAR ES")}
              => IdsOf(filtered.list) = <<1, 2, 3, 8>>
         /\ searchFilters.location = JsString("Masaki") => IdsOf(filtered.list) = <<>>
    /\ ToBoolean(searchFilters.location) =>
         \A i \in DOMAIN filtered.list :
           ilike(filtered.list[i].location.city, searchFilters.location.v)
    /\ searchFilters = [EmptyFilters EXCEPT !.location = JsString("Dar"),
                                            !.priceMax = JsNumber(600000)]
         => IdsOf(filtered.list) = <<2, 8>>

\* the scenario has run
C17_Witness ==
  /\ filtered.mode = "fallback"
  /\ searchFilters = [EmptyFilters EXCEPT !.location = JsString("Dar"),
                                          !.priceMax = JsNumber(600000)]
  /\ Len(filtered.list) = 2

\* ----------------------------------------------------- normalizer claims
\* C18 as stated: whatever the images field of the raw record is, the
\* normalized property has at least one image.
C18_ImagesNonEmpty ==
  normalized.by # "none" =>
    /\ normalized.property.images.t = "array"
    /\ Len(normalized.property.images.v) >= 1

\* C19 as stated: the normalized property carries the rent of the raw record
\* as priceMonthly, under whichever name the raw record has it, and the two
\* normalizers return the same property for the same raw record.
C19_OneCanonicalProperty ==
  normalized.by # "none" =>
    /\ normalized.property.priceMonthly = JsOr(rawRecord.monthly_rent, rawRecord.price_monthly)
    /\ convertDbProperty_hooks(rawRecord) = convertDbProperty_HomePage(rawRecord)

\* ------------------------------------------------------- readiness claims
\* the configurations with both values present and neither a template value
ReadyConfigurations ==
  {<<"https://abc.supabase.co", "eyJhbGciOi">>,
   <<"https://abc.supabase.co", "placeholder-key">>,
   <<"https://placeholder.supabase.co", "eyJhbGciOi">>,
   <<"https://placeholder.supabase.co", "placeholder-key">>}

PlaceholderLike(s) ==
  \E sentinel \in {"your-project", "your-anon-key", "placeholder"} :
    Includes(toLowerCase(s), sentinel)

C30_ZeroConstrains ==
  filtered.mode # "none" =>
    /\ searchFilters.priceMax = JsNumber(0) =>
         \A id \in Selected(filtered.list) : MockOf(id).priceMonthly <= 0
    /\ \A c \in {"priceMin", "bedrooms", "bathrooms"} :
         searchFilters[c] = JsNumber(0) =>
           filtered.list = Evaluated(Without(searchFilters, c))

\* ------------------------------------------------------ write-back claims
\* C23 (as amended): when an update succeeds, the property the backend
\* answered with is in the cache under its detail key, servable, as soon as
\* onSuccess has run; when a create succeeds, the detail key of the new
\* property is left as it was, so a detail read that follows fetches the
\* record from the backend.
C23_AnswerWrittenOnUpdate ==
  [][SucceedsNow =>
       LET k == PROPERTY_KEYS_detail(Answered.id)
       IN  /\ mut.kind = "update" => Servable(q'[k]) /\ q'[k].data = Answered
           /\ mut.kind = "create" => q'[k] = q[k]]_vars

\* an update of a property whose detail was not cached has succeeded, and the
\* cache holds the answer
C23_Witness ==
  /\ mut.kind = "update"
  /\ mut.st = "success"
  /\ ver = 1
  /\ Servable(q[PROPERTY_KEYS_detail(mut.id)])
  /\ q[PROPERTY_KEYS_detail(mut.id)].data = convertDbPropertyToAppProperty(mut.resp.data)

\* C23 as stated: after a successful create or update the answer is in the
\* cache under the detail key of the property.
C23_AnswerWritten ==
  [][(SucceedsNow /\ mut.kind \in {"create", "update"}) =>
       LET k == PROPERTY_KEYS_detail(Answered.id)
       IN  Servable(q'[k]) /\ q'[k].data = Answered]_vars

\* ------------------------------------------------------ validation claims
\* C22 as stated: a create or update mutation whose payload has at least one
\* validation error is rejected before dispatch: it ends in an error and no
\* backend call is made for it.
C22_InvalidRejectedBeforeDispatch ==
  (DOMAIN validatePropertyForm(form) # {} /\ mut.kind \in {"create", "update"}) =>
    /\ mut.st = "error"
    /\ mut.resp = NoResp
    /\ ver = 0

\* ---------------------------------------------------- auth context claims
\* C24 as stated: whenever the context holds a profile it holds a user, and
\* the profile is that user's.
C24_ProfileBelongsToUser ==
  profile # NullProfile => (user # NullUser /\ profile.id = user)

\* C26 as stated: signUp takes the fallback path exactly when the readiness
\* flag, which every other operation reads, is false.
C26_SameConfigurationTest ==
  [][(\E u \in Users : signUp(u)) => ((user' = MockUser) <=> ~isSupabaseConfigured)]_vars

\* C27 as stated: after signIn has returned {error: null} the context
\* eventually holds a user.
C27_SignInLeadsToUser == (signInResult = "ok") ~> (user # NullUser)

\* C28: loading becomes false and stays false, it never goes back to true,
\* the effect runs at most twice, and at most one auth-state subscription is
\* active at any moment.
C28_LoadingSettles ==
  /\ <>[](loading = FALSE)
  /\ [][loading = FALSE => loading' = FALSE]_vars
  /\ [](effectRuns <= 2 /\ subscriptions <= 1)

\* a session was present, the profile load failed, and the effect has run a
\* second time with its subscription in place
C28_Witness ==
  /\ loading = FALSE
  /\ effectRuns = 2
  /\ subscriptions = 1
  /\ tasks = {}
  /\ user \in Users
  /\ profile = basicProfile(user)
  /\ StoredRole[user] = "landlord"

\* C29 as stated: the context never reports a user whose stored role is
\* landlord as a tenant.
C29_RoleSurvivesFailedLoad ==
  \A u \in Users :
    (profile # NullProfile /\ profile.id = u /\ StoredRole[u] = "landlord")
      => (isLandlord /\ ~isTenant)

\* ------------------------------------------------------------------ C21
\* what a read of key k does when it finds data that became stale
Refetched(k) ==
  IF SelectRemote THEN q'[k].fl.ph = "sent" /\ q'[k].data = q[k].data
  ELSE dataUpdatedAt'[k] = now /\ q'[k].data = queryFn_fallback(k).value

\* what a read of key k does when it finds fresh data
ServedFromCache == q' = q /\ dataUpdatedAt' = dataUpdatedAt

\* C21 (as the code has it): a read of a key whose cached data is younger
\* than the staleness duration is served without a backend call, and a read at
\* or after that age starts a refetch; the duration is 5 minutes for list and
\* detail queries and 2 minutes for the queries by owner.
C21_FreshServedStaleRefetched ==
  [][\A k \in Keys :
       (useQueryAt(k) /\ ~InFlight(k) /\ Servable(q[k])) =>
         LET age == now - dataUpdatedAt[k]
             staleDuration == IF KeyKind(k) = "owner" THEN 2 ELSE 5
         IN  /\ age < staleDuration => ServedFromCache
             /\ age >= staleDuration => Refetched(k)]_vars

\* a query by owner is being fetched again over data that is two minutes
\* old and younger than five, no mutation having touched the cache
C21_Witness ==
  \E k \in OwnerKeys :
    /\ SelectRemote
    /\ mut = NoMutation
    /\ q[k].st = "success" /\ ~q[k].inv /\ q[k].fl.ph = "sent"
    /\ now - dataUpdatedAt[k] >= 2
    /\ now - dataUpdatedAt[k] < 5

\* C21 (as the spec has it): the staleness duration is 5 minutes for every
\* kind of property query.
C21_SameDurationEveryKind ==
  [][\A k \in Keys :
       (useQueryAt(k) /\ ~InFlight(k) /\ Servable(q[k])) =>
         LET age == now - dataUpdatedAt[k]
         IN  /\ age < 5 => ServedFromCache
             /\ age >= 5 => Refetched(k)]_vars

\* ------------------------------------------------------------------ C25
\* C25: the views of a cached detail record never decrease, whatever
\* increments, updates and refetches happen.
C25_ViewsNeverDecrease ==
  [][\A i \in Ids :
       LET k == PROPERTY_KEYS_detail(i)
       IN  (q[k].data.kind = "property" /\ q'[k].data.kind = "property") =>
             q'[k].data.views >= q[k].data.views]_vars

====
